---- MODULE Spec2Model ----
(***************************************************************************)
(* YASON: the incremental object/array builder (src/src/builder) writing   *)
(* the binary format into one byte buffer, and the reader (src/src/yason)  *)
(* that locates values in that buffer.                                     *)
(*                                                                         *)
(* The buffer is a sequence of cells.  A cell 0..255 is an initialised     *)
(* byte; a cell 256+g is a byte the builder exposed with Vec::set_len      *)
(* without writing it (its content g is whatever the allocation held).     *)
(* Positions are 0-based as in the source: position p is cell p+1.         *)
(***************************************************************************)
EXTENDS Integers, Sequences, FiniteSets, TLC

\* ------------------------------------------------------------------ bounds
MaxCount == 2
MaxNest == 1
MaxExtra == 1
MaxChain == 3
MaxPushes == 2
KeyPushes == 3
DeepExtra == 1

\* ------------------------------------------------- src/src/binary.rs, etc.
DATA_TYPE_SIZE == 1
OBJECT_SIZE == 4
ARRAY_SIZE == OBJECT_SIZE
BOOL_SIZE == 1
ELEMENT_COUNT_SIZE == 2
KEY_OFFSET_SIZE == 4
VALUE_ENTRY_SIZE == DATA_TYPE_SIZE + 4
KEY_LENGTH_SIZE == 2
MAX_DATA_LENGTH_SIZE == 4
MAX_STRING_SIZE == 268435455
NUMBER_LENGTH_SIZE == 1
MAX_NESTED_DEPTH == 100

T_Object == 1
T_Array == 2
T_String == 3
T_Number == 4
T_Bool == 5
T_Null == 6

\* ------------------------------------------------------------ input domains
\* Keys: "b", "aa" (b < aa in the order of cmp_key, aa < b as strings), and
\* with "a" where three keys are pushed (a < b < aa).
Keys == { <<98>>, <<97, 97>> }
KeysWide == Keys \cup { <<97>> }
\* A string longer than MAX_STRING_SIZE: only its length is ever used,
\* push_data_length rejects it before a byte of it is written.
HugeStr == << -1 >>
Strings == { <<>>, <<120>> }
\* Numbers are opaque to the format: a number is its compact encoding.
Numbers == { <<193, 2>> }
Counts == 0..MaxCount
NestCounts == 0..MaxNest
Garbage == {0, 255}
InitBytes == { <<>>, <<7, 7, 7>> }

StrLen(s) == IF s = HugeStr THEN MAX_STRING_SIZE + 1 ELSE Len(s)

\* ------------------------------------------------------------- byte helpers
Byte(c) == c % 256
IsInit(c) == c < 256
Pow256(i) == IF i = 0 THEN 1 ELSE IF i = 1 THEN 256 ELSE IF i = 2 THEN 65536 ELSE 16777216

\* A value that stands for every position or length no buffer of the model
\* reaches: a u32 whose most significant byte is 64 or more.
BIG == 64 * Pow256(3)

\* to_le_bytes of an unsigned value of w bytes
LE(n, w) == [i \in 1..w |-> (n \div Pow256(i - 1)) % 256]

\* s[pos .. pos+Len(data)) := data
WriteAt(s, pos, data) ==
    [i \in 1..Len(s) |-> IF i > pos /\ i <= pos + Len(data) THEN data[i - pos] ELSE s[i]]

\* n cells exposed by set_len without being written
Skip(n, g) == [i \in 1..n |-> 256 + g]

\* u16::from_le_bytes(s[pos..pos+2])
RdU16(s, pos) == Byte(s[pos + 1]) + 256 * Byte(s[pos + 2])

\* u32::from_le_bytes(s[pos..pos+4]), saturated at BIG
RdU32(s, pos) ==
    IF Byte(s[pos + 4]) >= 64 THEN BIG
    ELSE Byte(s[pos + 1]) + 256 * Byte(s[pos + 2]) + 65536 * Byte(s[pos + 3])
         + 16777216 * Byte(s[pos + 4])

\* i32::from_le_bytes(s[pos..pos+4]) as usize: a negative size becomes a
\* position past every buffer
RdI32AsUsize(s, pos) == RdU32(s, pos)

\* ---------------------------------------------------- src/src/util.rs
RECURSIVE VarintLoop(_, _, _)
VarintLoop(value, i, acc) ==
    IF i = 4 THEN <<>>
    ELSE LET ch == value % 128
             rest == value \div 128
             b == IF rest # 0 THEN ch + 128 ELSE ch
         IN  IF rest = 0 THEN Append(acc, b) ELSE VarintLoop(rest, i + 1, Append(acc, b))

\* an encoder that emits the most significant group first
encode_varint_msb_first(value) ==
    IF value < 128 THEN <<value>>
    ELSE LET e == VarintLoop(value, 0, <<>>) IN
         [i \in 1..Len(e) |->
             (e[Len(e) + 1 - i] % 128) + (IF i < Len(e) THEN 128 ELSE 0)]

encode_varint(value) == IF value < 128 THEN <<value>> ELSE VarintLoop(value, 0, <<>>)

\* cmp_key: -1 Less, 0 Equal, 1 Greater; by length, then by bytes
RECURSIVE CmpBytes(_, _, _)
CmpBytes(l, r, i) ==
    IF i > Len(l) /\ i > Len(r) THEN 0
    ELSE IF i > Len(l) THEN -1
    ELSE IF i > Len(r) THEN 1
    ELSE IF l[i] < r[i] THEN -1
    ELSE IF l[i] > r[i] THEN 1
    ELSE CmpBytes(l, r, i + 1)

cmp_key(left, right) ==
    IF Len(left) = Len(right) THEN CmpBytes(left, right, 1)
    ELSE IF Len(left) > Len(right) THEN 1 ELSE -1

\* ------------------------------------------------------------ builder state
\* One record per live builder.  kind, element_count, start_pos, entry_pos
\* (value_entry_pos / key_offset_pos), value_count, bytes_init_len, snap
\* (current_depth / depth) and key_sorted are the fields of the source.
\* ctr is the index, in the chain of live builders, of the builder whose
\* counter this builder compares its snapshot with; live is that counter
\* when the builder owns it.  unfin, pushed and errs are history (not in the
\* source): whether a builder nested in this one was created and has not
\* finished successfully, the elements whose push returned Ok, and the
\* number of pushes that returned an error.
MkBuilder(kind, n, sorted, init, start, snap, ctr, live) ==
    [kind |-> kind, element_count |-> n, key_sorted |-> sorted,
     bytes_init_len |-> init, start_pos |-> start,
     entry_pos |-> start + ELEMENT_COUNT_SIZE, value_count |-> 0,
     snap |-> snap, ctr |-> ctr, live |-> live,
     unfin |-> FALSE, pushed |-> <<>>, errs |-> 0]

Out(res, s, b) == [res |-> res, bytes |-> s, b |-> b]

\* InnerArrayBuilder::try_new: the bytes appended
ArrayHeader(n, g) ==
    <<T_Array>> \o Skip(ARRAY_SIZE, g) \o LE(n, ELEMENT_COUNT_SIZE) \o Skip(VALUE_ENTRY_SIZE * n, g)

\* a depth check that lets one more level in
ArrayDepthExceededLate(depth) == depth > MAX_NESTED_DEPTH

\* InnerArrayBuilder::try_new: the depth check
ArrayDepthExceeded(depth) == depth >= MAX_NESTED_DEPTH

\* InnerObjectBuilder::try_new: the bytes appended
ObjectHeader(n, g) ==
    <<T_Object>> \o Skip(OBJECT_SIZE, g) \o LE(n, ELEMENT_COUNT_SIZE) \o Skip(KEY_OFFSET_SIZE * n, g)

\* the test both builders make first in every push and in finish
InnerUncompleted(b, live) == b.snap # live

\* VecExt::push_string / push_data_length
StringPayload(v) == encode_varint(Len(v)) \o v
StringTooLong(v) == StrLen(v) > MAX_STRING_SIZE

\* VecExt::push_number
NumberPayload(v) == <<Len(v)>> \o v

\* VecExt::push_key
KeyBytes(key) == LE(Len(key) % 65536, KEY_LENGTH_SIZE) \o key

\* the 4-byte field of a value-entry written by the closure of a push
ArrEntryField(dt, arg, offset) == IF dt = T_Bool THEN (IF arg THEN 1 ELSE 0) ELSE offset

ArrAdvance(b) ==
    [b EXCEPT !.entry_pos = @ + VALUE_ENTRY_SIZE, !.value_count = @ + 1]

\* InnerArrayBuilder::push_value with the closure of push_<dt>
ArrPushValue(s, b, live, dt, arg) ==
    IF InnerUncompleted(b, live) THEN Out("InnerUncompleted", s, b)
    ELSE IF b.entry_pos >= Len(s) THEN Out("panic", s, b)
    ELSE LET s1 == WriteAt(s, b.entry_pos, <<dt>>)
             offset == Len(s1) - b.start_pos
         IN  IF dt = T_Null THEN Out("Ok", s1, ArrAdvance(b))
             ELSE IF b.entry_pos + DATA_TYPE_SIZE + 4 > Len(s1) THEN Out("panic", s1, b)
             ELSE LET s2 == WriteAt(s1, b.entry_pos + DATA_TYPE_SIZE,
                                    LE(ArrEntryField(dt, arg, offset), 4))
                  IN  IF dt = T_String
                      THEN IF StringTooLong(arg) THEN Out("StringTooLong", s2, b)
                           ELSE Out("Ok", s2 \o StringPayload(arg), ArrAdvance(b))
                      ELSE IF dt = T_Number
                      THEN Out("Ok", s2 \o NumberPayload(arg), ArrAdvance(b))
                      ELSE Out("Ok", s2, ArrAdvance(b))

\* InnerObjectBuilder::read_key_by_offset; ok = FALSE where a slice panics
ReadKeyByOffset(s, key_offset, start_pos) ==
    LET key_index == key_offset + start_pos IN
    IF key_index + KEY_LENGTH_SIZE > Len(s) THEN [ok |-> FALSE, key |-> <<>>]
    ELSE LET key_length == RdU16(s, key_index)
             from == key_index + KEY_LENGTH_SIZE
         IN  IF from + key_length > Len(s) THEN [ok |-> FALSE, key |-> <<>>]
             ELSE [ok |-> TRUE, key |-> [i \in 1..key_length |-> Byte(s[from + i])]]

\* the key the i-th slot (0-based) of the key-offset table designates
TableKey(s, start_pos, i) ==
    ReadKeyByOffset(s, RdU32(s, start_pos + ELEMENT_COUNT_SIZE + KEY_OFFSET_SIZE * i), start_pos)

\* slice::binary_search_by over the first `right` slots
RECURSIVE BSearch(_, _, _, _, _)
BSearch(s, start_pos, target, left, right) ==
    IF left >= right THEN [panic |-> FALSE, found |-> FALSE, idx |-> left]
    ELSE LET mid == left + (right - left) \div 2
             k == TableKey(s, start_pos, mid)
         IN  IF ~k.ok THEN [panic |-> TRUE, found |-> FALSE, idx |-> 0]
             ELSE LET c == cmp_key(k.key, target) IN
                  IF c < 0 THEN BSearch(s, start_pos, target, mid + 1, right)
                  ELSE IF c > 0 THEN BSearch(s, start_pos, target, left, mid)
                  ELSE [panic |-> FALSE, found |-> TRUE, idx |-> mid]

\* a search that always answers the end of the filled slots
binary_search_at_end(target, s, start_pos, value_count) ==
    [panic |-> FALSE, cands |-> {value_count}]

\* InnerObjectBuilder::binary_search: the positions it may return.  On a
\* hit the library returns any one of the matching slots.
binary_search(target, s, start_pos, value_count) ==
    IF start_pos + ELEMENT_COUNT_SIZE + value_count * KEY_OFFSET_SIZE > Len(s)
    THEN [panic |-> TRUE, cands |-> {}]
    ELSE LET r == BSearch(s, start_pos, target, 0, value_count) IN
         IF r.panic THEN [panic |-> TRUE, cands |-> {}]
         ELSE IF ~r.found THEN [panic |-> FALSE, cands |-> {r.idx}]
         ELSE [panic |-> FALSE,
               cands |-> {r.idx} \cup
                         { i \in 0..(value_count - 1) :
                             LET k == TableKey(s, start_pos, i) IN k.ok /\ cmp_key(k.key, target) = 0 }]

\* ptr::copy(src, src + KEY_OFFSET_SIZE, count) from offset_pos; what lands
\* past the length falls in spare capacity and is overwritten by push_key
ShiftTable(s, offset_pos, count) ==
    [i \in 1..Len(s) |->
        IF i > offset_pos + KEY_OFFSET_SIZE /\ i <= offset_pos + KEY_OFFSET_SIZE + count
        THEN s[i - KEY_OFFSET_SIZE] ELSE s[i]]

\* the slot an unsorted push writes: start of table + pos slots
InsertSlot(b, pos) == b.start_pos + ELEMENT_COUNT_SIZE + pos * KEY_OFFSET_SIZE

\* the closure f of push_<dt> on an object: tag, then payload
ObjValueOk(dt, arg) == ~(dt = T_String /\ StringTooLong(arg))
ObjValueBytes(dt, arg) ==
    IF dt = T_String THEN (IF StringTooLong(arg) THEN <<T_String>> ELSE <<T_String>> \o StringPayload(arg))
    ELSE IF dt = T_Number THEN <<T_Number>> \o NumberPayload(arg)
    ELSE IF dt = T_Bool THEN <<T_Bool, IF arg THEN 1 ELSE 0>>
    ELSE IF dt = T_Null THEN <<T_Null>>
    ELSE <<>>

\* InnerObjectBuilder::push_key_value_by, pos being the result of the
\* binary search (unused when key_sorted)
ObjPushKeyValue(s, b, live, key, pos, dt, arg) ==
    IF InnerUncompleted(b, live) THEN Out("InnerUncompleted", s, b)
    ELSE LET key_offset == Len(s) - b.start_pos
             offset_pos == IF b.key_sorted THEN b.entry_pos ELSE InsertSlot(b, pos)
             s1 == IF ~b.key_sorted /\ pos < b.value_count
                   THEN ShiftTable(s, offset_pos, (b.value_count - pos) * KEY_OFFSET_SIZE)
                   ELSE s
         IN  IF offset_pos + KEY_OFFSET_SIZE > Len(s) THEN Out("panic", s1, b)
             ELSE LET s2 == WriteAt(s1, offset_pos, LE(key_offset, 4)) \o KeyBytes(key)
                      b2 == [b EXCEPT !.entry_pos = @ + KEY_OFFSET_SIZE]
                      s3 == s2 \o ObjValueBytes(dt, arg)
                  IN  IF ObjValueOk(dt, arg)
                      THEN Out("Ok", s3, [b2 EXCEPT !.value_count = @ + 1])
                      ELSE Out("StringTooLong", s3, b2)

\* ----------------------------------------------- reader: src/src/yason
\* A document is the byte slice a Yason wraps.  A read returns res ("Ok",
\* "None", an error, or "panic"), the kind of the value, and its content:
\* the bytes of a string or number, <<0>> or <<1>> for a bool, the bounds
\* <<from, to>> of the slice of a nested container; for IndexOutOfBounds the
\* fields <<len, index>> of the error.
Val(res, dt, val) == [res |-> res, dt |-> dt, val |-> val]
OutOfBounds(len, index) == Val("IndexOutOfBounds", 0, <<len, index>>)
ReadPanic == Val("panic", 0, <<>>)

\* Yason::slice: bytes.get(from..to) is Some
SliceOk(d, from, to) == from <= to /\ to <= Len(d)
SliceOf(d, from, to) == [i \in 1..(to - from) |-> Byte(d[from + i])]

\* i32::from_le_bytes(s[pos..pos+4]), saturated at -BIG and BIG
RdI32(s, pos) ==
    IF Byte(s[pos + 4]) < 128 THEN RdU32(s, pos)
    ELSE IF 255 - Byte(s[pos + 4]) >= 64 THEN -BIG
    ELSE -((255 - Byte(s[pos + 1])) + 256 * (255 - Byte(s[pos + 2]))
           + 65536 * (255 - Byte(s[pos + 3])) + 16777216 * (255 - Byte(s[pos + 4])) + 1)

\* Yason::read_type
Yason_read_type(d, index) ==
    IF index >= Len(d) THEN OutOfBounds(Len(d), index)
    ELSE IF Byte(d[index + 1]) \in T_Object..T_Null THEN Val("Ok", Byte(d[index + 1]), <<>>)
    ELSE Val("InvalidDataType", 0, <<Byte(d[index + 1])>>)

Pow128(i) == IF i = 0 THEN 1 ELSE IF i = 1 THEN 128 ELSE IF i = 2 THEN 16384 ELSE 2097152

RECURSIVE DecodeLoop(_, _, _, _)
DecodeLoop(buf, index, i, data_length) ==
    IF i = MAX_DATA_LENGTH_SIZE THEN [res |-> "panic", len |-> 0, n |-> 0, at |-> 0]
    ELSE IF index + i >= Len(buf) THEN [res |-> "IndexOutOfBounds", len |-> 0, n |-> 0, at |-> index + i]
    ELSE LET byte == Byte(buf[index + i + 1])
             acc == data_length + (byte % 128) * Pow128(i)
         IN  IF byte < 128 THEN [res |-> "Ok", len |-> acc, n |-> i + 1, at |-> 0]
             ELSE DecodeLoop(buf, index, i + 1, acc)

\* util::decode_varint; debug_assert!(index < buf.len()) in debug builds
decode_varint(buf, index, dbg) ==
    IF dbg /\ index >= Len(buf) THEN [res |-> "panic", len |-> 0, n |-> 0, at |-> 0]
    ELSE DecodeLoop(buf, index, 0, 0)

\* Yason::read_string: the length is read one byte after index
Yason_read_string(d, at, dbg) ==
    LET index == at + DATA_TYPE_SIZE
        v == decode_varint(d, index, dbg)
        end == index + v.n + v.len
    IN  IF v.res = "panic" THEN ReadPanic
        ELSE IF v.res # "Ok" THEN OutOfBounds(Len(d), v.at)
        ELSE IF SliceOk(d, index + v.n, end) THEN Val("Ok", T_String, SliceOf(d, index + v.n, end))
        ELSE OutOfBounds(Len(d), end)

\* Yason::read_number
Yason_read_number(d, at) ==
    LET index == at + DATA_TYPE_SIZE IN
    IF index >= Len(d) THEN OutOfBounds(Len(d), index)
    ELSE LET end == index + NUMBER_LENGTH_SIZE + Byte(d[index + 1]) IN
         IF SliceOk(d, index + NUMBER_LENGTH_SIZE, end)
         THEN Val("Ok", T_Number, SliceOf(d, index + NUMBER_LENGTH_SIZE, end))
         ELSE OutOfBounds(Len(d), end)

\* Yason::read_bool
Yason_read_bool(d, index) ==
    IF index + DATA_TYPE_SIZE >= Len(d) THEN OutOfBounds(Len(d), index + DATA_TYPE_SIZE)
    ELSE Val("Ok", T_Bool, <<IF Byte(d[index + DATA_TYPE_SIZE + 1]) = 1 THEN 1 ELSE 0>>)

\* Yason::read_object, Yason::read_array, Array::read_object, Array::read_array:
\* size = read_i32(index + 1) as usize + 1 + 4; slice(index, index + size).
\* A negative size is a usize near 2^64: the additions overflow (a panic with
\* overflow checks, a wrap without) or give an end past every buffer.
\* Object::new_unchecked and Array::new_unchecked debug_assert that the slice
\* holds a complete header.
ReadContainer(d, index, dt, dbg) ==
    IF ~SliceOk(d, index + DATA_TYPE_SIZE, index + DATA_TYPE_SIZE + 4)
    THEN OutOfBounds(Len(d), index + DATA_TYPE_SIZE + 4)
    ELSE LET size == RdI32(d, index + DATA_TYPE_SIZE)
             to == size + DATA_TYPE_SIZE + OBJECT_SIZE + index
         IN  IF size < 0 /\ to < 0 THEN OutOfBounds(Len(d), BIG)
             ELSE IF size < 0 /\ dbg THEN ReadPanic
             ELSE IF ~SliceOk(d, index, to) THEN OutOfBounds(Len(d), to)
             ELSE IF dbg /\ to - index < DATA_TYPE_SIZE + OBJECT_SIZE + ELEMENT_COUNT_SIZE
             THEN ReadPanic
             ELSE Val("Ok", dt, <<index, to>>)

\* Array::len / Object::len
ReadLen(d) == RdU16(d, DATA_TYPE_SIZE + ARRAY_SIZE)
LenOk(d) == SliceOk(d, DATA_TYPE_SIZE + ARRAY_SIZE, DATA_TYPE_SIZE + ARRAY_SIZE + ELEMENT_COUNT_SIZE)

\* Array::read_value (through read_type_and_value_entry_pos, read_value_pos)
Array_read_value(a, index, dbg) ==
    LET value_entry_pos == DATA_TYPE_SIZE + ARRAY_SIZE + ELEMENT_COUNT_SIZE + index * VALUE_ENTRY_SIZE
        t == Yason_read_type(a, value_entry_pos)
        field == value_entry_pos + DATA_TYPE_SIZE
    IN  IF t.res # "Ok" THEN t
        ELSE IF t.dt = T_Null THEN Val("Ok", T_Null, <<>>)
        ELSE IF ~SliceOk(a, field, field + 4) THEN OutOfBounds(Len(a), field + 4)
        ELSE IF t.dt = T_Bool THEN Val("Ok", T_Bool, <<IF RdU32(a, field) = 1 THEN 1 ELSE 0>>)
        ELSE LET value_pos == RdU32(a, field) + DATA_TYPE_SIZE + ARRAY_SIZE IN
             IF t.dt = T_String THEN Yason_read_string(a, value_pos, dbg)
             ELSE IF t.dt = T_Number THEN Yason_read_number(a, value_pos)
             ELSE ReadContainer(a, value_pos, t.dt, dbg)

\* Array::get: check_index, then read_value
Array_get(a, index, dbg) ==
    IF ~LenOk(a) THEN OutOfBounds(Len(a), DATA_TYPE_SIZE + ARRAY_SIZE + ELEMENT_COUNT_SIZE)
    ELSE IF index >= ReadLen(a) THEN OutOfBounds(ReadLen(a), index)
    ELSE Array_read_value(a, index, dbg)

\* Object::find_key: [res, found, pos]
RECURSIVE FindLoop(_, _, _, _)
FindLoop(o, key, left, right) ==
    IF left >= right THEN [res |-> "Ok", found |-> FALSE, pos |-> 0]
    ELSE LET mid == left + (right - left) \div 2
             key_offset_pos == DATA_TYPE_SIZE + OBJECT_SIZE + ELEMENT_COUNT_SIZE + mid * KEY_OFFSET_SIZE
         IN  IF ~SliceOk(o, key_offset_pos, key_offset_pos + 4)
             THEN [res |-> "IndexOutOfBounds", found |-> FALSE, pos |-> key_offset_pos + 4]
             ELSE LET len_pos == RdU32(o, key_offset_pos) + DATA_TYPE_SIZE + OBJECT_SIZE
                      key_pos == len_pos + KEY_LENGTH_SIZE
                  IN  IF ~SliceOk(o, len_pos, key_pos)
                      THEN [res |-> "IndexOutOfBounds", found |-> FALSE, pos |-> key_pos]
                      ELSE LET len == RdU16(o, len_pos) IN
                           IF ~SliceOk(o, key_pos, key_pos + len)
                           THEN [res |-> "IndexOutOfBounds", found |-> FALSE, pos |-> key_pos + len]
                           ELSE LET cur_key == SliceOf(o, key_pos, key_pos + len) IN
                                IF len < Len(key) THEN FindLoop(o, key, mid + 1, right)
                                ELSE IF len > Len(key) THEN FindLoop(o, key, left, mid)
                                ELSE IF CmpBytes(cur_key, key, 1) < 0 THEN FindLoop(o, key, mid + 1, right)
                                ELSE IF CmpBytes(cur_key, key, 1) > 0 THEN FindLoop(o, key, left, mid)
                                ELSE [res |-> "Ok", found |-> TRUE, pos |-> key_pos + len]

Object_find_key(o, key) ==
    IF ~LenOk(o)
    THEN [res |-> "IndexOutOfBounds", found |-> FALSE,
          pos |-> DATA_TYPE_SIZE + OBJECT_SIZE + ELEMENT_COUNT_SIZE]
    ELSE FindLoop(o, key, 0, ReadLen(o))

\* Object::read_value
Object_read_value(o, value_pos, dbg) ==
    LET t == Yason_read_type(o, value_pos) IN
    IF t.res # "Ok" THEN t
    ELSE IF t.dt = T_Null THEN Val("Ok", T_Null, <<>>)
    ELSE IF t.dt = T_Bool THEN Yason_read_bool(o, value_pos)
    ELSE IF t.dt = T_String THEN Yason_read_string(o, value_pos, dbg)
    ELSE IF t.dt = T_Number THEN Yason_read_number(o, value_pos)
    ELSE ReadContainer(o, value_pos, t.dt, dbg)

\* Object::get: Ok(None) when the key is not found
Object_get(o, key, dbg) ==
    LET f == Object_find_key(o, key) IN
    IF f.res # "Ok" THEN OutOfBounds(Len(o), f.pos)
    ELSE IF ~f.found THEN Val("None", 0, <<>>)
    ELSE Object_read_value(o, f.pos, dbg)

\* ------------------------------------------------------------------- state
VARIABLES
    bytes,    \* the Vec<u8> all builders of the tree write into
    stack,    \* the live builders, outermost first; only the last is usable
              \* (each nested builder mutably borrows its parent)
    phase,    \* "init" | "open" | "closed" | "panicked"
    garbage,  \* what the bytes exposed by set_len hold
    debug,    \* whether debug assertions are compiled in
    last,     \* the last call and what it returned
    log,      \* history: the containers sealed by a successful finish
    npush     \* history: number of push calls made

vars == <<bytes, stack, phase, garbage, debug, last, log, npush>>

NoCall ==
    [op |-> "none", res |-> "none", kind |-> "none", dt |-> 0, level |-> 0,
     unfin |-> FALSE, expected |-> 0, actual |-> 0, okpushes |-> 0, live |-> 0]

Top == stack[Len(stack)]
LiveOf(st, i) == st[st[i].ctr].live
TopLive == LiveOf(stack, Len(stack))

Call(op, res, dt) ==
    [op |-> op, res |-> res, kind |-> Top.kind, dt |-> dt, level |-> Len(stack),
     unfin |-> Top.unfin, expected |-> Top.element_count, actual |-> Top.value_count,
     okpushes |-> Len(Top.pushed), live |-> TopLive]

Init ==
    /\ bytes \in InitBytes
    /\ stack = <<>>
    /\ phase = "init"
    /\ garbage \in Garbage
    /\ debug \in BOOLEAN
    /\ last = NoCall
    /\ log = <<>>
    /\ npush = 0

\* a panic unwinds: nothing can be called afterwards
Panicked(op, dt) ==
    /\ phase' = "panicked"
    /\ last' = Call(op, "panic", dt)
    /\ UNCHANGED <<bytes, stack, garbage, debug, log>>

\* an element whose push returned Ok: at is the length of the buffer when the
\* push was called, the position of the first byte the push appended
Elem(key, dt, val) == [key |-> key, dt |-> dt, val |-> val, at |-> Len(bytes)]

\* the builder after a push that did not create a builder
AfterPush(out, key, dt, val) ==
    IF out.res = "Ok" THEN [out.b EXCEPT !.pushed = Append(@, Elem(key, dt, val))]
    ELSE [out.b EXCEPT !.errs = @ + 1]

\* a push of a scalar returned (Ok or an error)
Returned(out, key, dt, val) ==
    IF out.res = "panic" THEN Panicked("push", dt)
    ELSE /\ bytes' = out.bytes
         /\ stack' = [stack EXCEPT ![Len(stack)] = AfterPush(out, key, dt, val)]
         /\ last' = Call("push", out.res, dt)
         /\ UNCHANGED <<phase, garbage, debug, log>>

\* a nested builder was created by a push on the last builder of the chain
Opened(out, key, dt, child, liveNow) ==
    LET n == Len(stack)
        parent == [out.b EXCEPT !.pushed = Append(@, Elem(key, dt, child.bytes_init_len))]
        st1 == Append([stack EXCEPT ![n] = parent], child)
    IN  /\ stack' = [st1 EXCEPT ![child.ctr].live = liveNow]
        /\ last' = Call("push", "Ok", dt)
        /\ UNCHANGED <<phase, garbage, debug, log>>

\* ------------------------------------------- ArrayBuilder / ArrayRefBuilder
\* ArrayBuilder::try_new, ArrayRefBuilder::try_new (Depth::new() is Owned(0))
NewArray(n) ==
    /\ phase = "init"
    /\ ~ArrayDepthExceeded(0)
    /\ bytes' = bytes \o ArrayHeader(n, garbage)
    /\ stack' = << MkBuilder("array", n, FALSE, Len(bytes),
                             Len(bytes) + DATA_TYPE_SIZE + ARRAY_SIZE, 1, 1, 1) >>
    /\ phase' = "open"
    /\ last' = [NoCall EXCEPT !.op = "new", !.res = "Ok", !.kind = "array"]
    /\ UNCHANGED <<garbage, debug, log, npush>>

ArrPush(dt, arg) ==
    /\ phase = "open"
    /\ Top.kind = "array"
    /\ npush' = npush + 1
    /\ Returned(ArrPushValue(bytes, Top, TopLive, dt, arg), <<>>, dt, arg)

ArrPushString(v) == ArrPush(T_String, v)
ArrPushNumber(v) == ArrPush(T_Number, v)
ArrPushBool(v) == ArrPush(T_Bool, v)
ArrPushNull == ArrPush(T_Null, 0)

\* InnerArrayBuilder::push_array: push_value, then try_new with the shared
\* depth (total_nested_depth.borrow_mut())
ArrPushArray(n) ==
    /\ phase = "open"
    /\ Top.kind = "array"
    /\ npush' = npush + 1
    /\ LET out == ArrPushValue(bytes, Top, TopLive, T_Array, 0) IN
       IF out.res # "Ok" THEN Returned(out, <<>>, T_Array, 0)
       ELSE IF ArrayDepthExceeded(TopLive)
       THEN /\ bytes' = out.bytes
            /\ stack' = [stack EXCEPT ![Len(stack)] = [out.b EXCEPT !.errs = @ + 1]]
            /\ last' = Call("push", "NestedTooDeeply", T_Array)
            /\ UNCHANGED <<phase, garbage, debug, log>>
       ELSE /\ bytes' = out.bytes \o ArrayHeader(n, garbage)
            /\ Opened(out, <<>>, T_Array,
                      MkBuilder("array", n, FALSE, Len(out.bytes),
                                Len(out.bytes) + DATA_TYPE_SIZE + ARRAY_SIZE,
                                TopLive + 1, Top.ctr, 0),
                      TopLive + 1)

\* ----------------------------------------- ObjectBuilder / ObjectRefBuilder
\* InnerObjectBuilder::try_new: the wrapper is made from the buffer alone,
\* its depth counted up once and the snapshot taken from it.  The depth of a
\* wrapper is counted from the value a new wrapper has.
ObjectOwnDepth == 1

NewObject(n, sorted) ==
    /\ phase = "init"
    /\ bytes' = bytes \o ObjectHeader(n, garbage)
    /\ stack' = << MkBuilder("object", n, sorted, Len(bytes),
                             Len(bytes) + DATA_TYPE_SIZE + OBJECT_SIZE,
                             ObjectOwnDepth, 1, ObjectOwnDepth) >>
    /\ phase' = "open"
    /\ last' = [NoCall EXCEPT !.op = "new", !.res = "Ok", !.kind = "object"]
    /\ UNCHANGED <<garbage, debug, log, npush>>

\* the positions the key may be inserted at; one arbitrary position when the
\* object is built in key_sorted mode (no search is made)
SearchOf(b, key) ==
    IF b.key_sorted THEN [panic |-> FALSE, cands |-> {0}]
    ELSE binary_search(key, bytes, b.start_pos, b.value_count)

ObjPush(key, dt, arg) ==
    /\ phase = "open"
    /\ Top.kind = "object"
    /\ npush' = npush + 1
    /\ IF InnerUncompleted(Top, TopLive)
       THEN Returned(Out("InnerUncompleted", bytes, Top), key, dt, arg)
       ELSE LET sr == SearchOf(Top, key) IN
            IF sr.panic THEN Panicked("push", dt)
            ELSE \E pos \in sr.cands :
                    Returned(ObjPushKeyValue(bytes, Top, TopLive, key, pos, dt, arg), key, dt, arg)

ObjPushString(key, v) == ObjPush(key, T_String, v)
ObjPushNumber(key, v) == ObjPush(key, T_Number, v)
ObjPushBool(key, v) == ObjPush(key, T_Bool, v)
ObjPushNull(key) == ObjPush(key, T_Null, 0)

\* InnerObjectBuilder::push_object: the nested object has a wrapper of its own
ObjChildObject(n, sorted, at) ==
    MkBuilder("object", n, sorted, at, at + DATA_TYPE_SIZE + OBJECT_SIZE,
              ObjectOwnDepth, Len(stack) + 1, ObjectOwnDepth)

\* InnerObjectBuilder::push_array: the nested array is given the buffer
\* alone, its depth starts like that of a top-level array
ObjChildArray(n, at) ==
    MkBuilder("array", n, FALSE, at, at + DATA_TYPE_SIZE + ARRAY_SIZE, 1, Len(stack) + 1, 1)

\* push_object / push_array of an object: push_key_value_by with an empty
\* closure, then try_new on the buffer
ObjPushContainer(key, dt, n, sorted) ==
    /\ phase = "open"
    /\ Top.kind = "object"
    /\ npush' = npush + 1
    /\ IF InnerUncompleted(Top, TopLive)
       THEN Returned(Out("InnerUncompleted", bytes, Top), key, dt, 0)
       ELSE LET sr == SearchOf(Top, key) IN
            IF sr.panic THEN Panicked("push", dt)
            ELSE \E pos \in sr.cands :
                    LET out == ObjPushKeyValue(bytes, Top, TopLive, key, pos, dt, 0)
                        at == Len(out.bytes)
                        child == IF dt = T_Object THEN ObjChildObject(n, sorted, at)
                                 ELSE ObjChildArray(n, at)
                        header == IF dt = T_Object THEN ObjectHeader(n, garbage)
                                  ELSE ArrayHeader(n, garbage)
                    IN  IF out.res # "Ok" THEN Returned(out, key, dt, 0)
                        ELSE /\ bytes' = out.bytes \o header
                             /\ Opened(out, key, dt, child, child.live)

ObjPushObject(key, n, sorted) == ObjPushContainer(key, T_Object, n, sorted)

ObjPushArray(key, n) == ObjPushContainer(key, T_Array, n, FALSE)

\* ------------------------------------------------------------------ finish
\* the builder is consumed by finish whatever it returns; the parent learns
\* whether everything nested in it finished
Pop(st, failed) ==
    LET n == Len(st) IN
    IF n = 1 THEN <<>>
    ELSE [SubSeq(st, 1, n - 1) EXCEPT ![n - 1].unfin = @ \/ failed]

PhaseAfterPop == IF Len(stack) = 1 THEN "closed" ELSE "open"

Sealed(b, end) ==
    [kind |-> b.kind, init |-> b.bytes_init_len, start |-> b.start_pos, end |-> end,
     element_count |-> b.element_count, key_sorted |-> b.key_sorted,
     pushed |-> b.pushed, unfin |-> b.unfin, errs |-> b.errs, level |-> Len(stack)]

\* a size that counts from the tag of the container
SealBytesFromTag(s, b) == WriteAt(s, b.start_pos - ARRAY_SIZE, LE(Len(s) - b.bytes_init_len, 4))

\* write_total_size(len - start_pos, start_pos - ARRAY_SIZE)
SealBytes(s, b) == WriteAt(s, b.start_pos - ARRAY_SIZE, LE(Len(s) - b.start_pos, 4))

\* finish up to and including the decrement of the depth
FinishResult(b, live) ==
    IF InnerUncompleted(b, live) THEN "InnerUncompleted"
    ELSE IF b.value_count # b.element_count THEN "InconsistentElementCount"
    ELSE "Ok"

Finished(res) ==
    /\ last' = Call("finish", res, 0)
    /\ phase' = PhaseAfterPop
    /\ IF res = "Ok"
       THEN /\ bytes' = SealBytes(bytes, Top)
            /\ stack' = Pop([stack EXCEPT ![Top.ctr].live = @ - 1], Top.unfin)
            /\ log' = Append(log, Sealed(Top, Len(bytes)))
       ELSE /\ stack' = Pop(stack, TRUE)
            /\ UNCHANGED <<bytes, log>>
    /\ UNCHANGED <<garbage, debug, npush>>

\* InnerArrayBuilder::finish
ArrFinish ==
    /\ phase = "open"
    /\ Top.kind = "array"
    /\ Finished(FinishResult(Top, TopLive))

\* InnerObjectBuilder::key_sorted, where it returns true; FALSE also where
\* it panics (no element: 0 - 1 overflows; a slot designating no key)
key_sorted(s, b) ==
    /\ b.element_count > 0
    /\ \A i \in 0..(b.element_count - 1) : TableKey(s, b.start_pos, i).ok
    /\ \A i \in 0..(b.element_count - 2) :
          cmp_key(TableKey(s, b.start_pos, i).key, TableKey(s, b.start_pos, i + 1).key) <= 0

\* InnerObjectBuilder::finish; debug_assert!(self.key_sorted()) is compiled
\* in debug builds only
ObjFinish ==
    /\ phase = "open"
    /\ Top.kind = "object"
    /\ LET res == FinishResult(Top, TopLive) IN
       IF res = "Ok" /\ debug /\ ~key_sorted(SealBytes(bytes, Top), Top)
       THEN Panicked("finish", 0) /\ UNCHANGED npush
       ELSE Finished(res)

\* a nested builder goes out of scope without finish
Drop ==
    /\ phase = "open"
    /\ Len(stack) > 1
    /\ last' = Call("drop", "none", 0)
    /\ stack' = Pop(stack, TRUE)
    /\ UNCHANGED <<bytes, phase, garbage, debug, log, npush>>

\* -------------------------------------------------------------------- Next
CanPush == npush < MaxPushes /\ phase = "open" /\ Top.value_count < Top.element_count + MaxExtra
CanNest == CanPush /\ Len(stack) < MaxChain

Next ==
    \/ \E n \in Counts : NewArray(n)
    \/ \E n \in Counts, sorted \in BOOLEAN : NewObject(n, sorted)
    \/ \E v \in Strings \cup {HugeStr} : CanPush /\ ArrPushString(v)
    \/ \E v \in Numbers : CanPush /\ ArrPushNumber(v)
    \/ \E v \in BOOLEAN : CanPush /\ ArrPushBool(v)
    \/ CanPush /\ ArrPushNull
    \/ \E n \in NestCounts : CanNest /\ ArrPushArray(n)
    \/ ArrFinish
    \/ \E k \in Keys, v \in Strings \cup {HugeStr} : CanPush /\ ObjPushString(k, v)
    \/ \E k \in Keys, v \in Numbers : CanPush /\ ObjPushNumber(k, v)
    \/ \E k \in Keys, v \in BOOLEAN : CanPush /\ ObjPushBool(k, v)
    \/ \E k \in Keys : CanPush /\ ObjPushNull(k)
    \/ \E k \in Keys, n \in NestCounts, sorted \in BOOLEAN : CanNest /\ ObjPushObject(k, n, sorted)
    \/ \E k \in Keys, n \in NestCounts : CanNest /\ ObjPushArray(k, n)
    \/ ObjFinish
    \/ Drop

Spec == Init /\ [][Next]_vars

\* ---------------------------------------------------------------- SpecKeys
\* One top-level object of up to MaxCount + 1 members, KeyPushes pushes of
\* scalars under three keys: every insertion order of the key-offset table.
WideCounts == 0..(MaxCount + 1)
CanPushKey == npush < KeyPushes /\ phase = "open" /\ Top.value_count < Top.element_count + MaxExtra

NextKeys ==
    \/ \E n \in WideCounts, sorted \in BOOLEAN : NewObject(n, sorted)
    \/ \E k \in KeysWide, v \in {<<120>>, HugeStr} : CanPushKey /\ ObjPushString(k, v)
    \/ \E k \in KeysWide : CanPushKey /\ ObjPushNull(k)
    \/ ObjFinish

SpecKeys == Init /\ [][NextKeys]_vars

\* ------------------------------------------------------------- SpecLongKey
\* Objects pushed a key of 2^16 bytes, the first length that a u16 does not
\* hold, next to a key of one byte.
LongKey == [i \in 1..Pow256(2) |-> 97]
LongKeyPushes == 2

NextLongKey ==
    \/ \E n \in Counts, sorted \in BOOLEAN : NewObject(n, sorted)
    \/ \E k \in {<<98>>, LongKey} : npush < LongKeyPushes /\ ObjPushNull(k)
    \/ \E k \in {<<98>>, LongKey} : npush < LongKeyPushes /\ ObjPushBool(k, TRUE)
    \/ ObjFinish

SpecLongKey == Init /\ [][NextLongKey]_vars

\* ---------------------------------------------------------------- SpecDeep
\* Chains of nested arrays, and of nested objects, as deep as the limit and
\* DeepExtra beyond: each container is declared with one element.
DeepKey == <<107, 101, 121>>
DeepChain == MAX_NESTED_DEPTH + DeepExtra
CanFill == phase = "open" /\ Top.value_count < Top.element_count
CanDeepen == CanFill /\ Len(stack) < DeepChain

InitDeep ==
    /\ bytes = <<>>
    /\ stack = <<>>
    /\ phase = "init"
    /\ garbage \in Garbage
    /\ debug \in BOOLEAN
    /\ last = NoCall
    /\ log = <<>>
    /\ npush = 0

NextDeep ==
    \/ NewArray(1)
    \/ NewObject(1, TRUE)
    \/ CanDeepen /\ ArrPushArray(1)
    \/ CanDeepen /\ ObjPushObject(DeepKey, 1, TRUE)
    \/ CanFill /\ ArrPushNull
    \/ CanFill /\ ObjPushNull(DeepKey)
    \/ ArrFinish
    \/ ObjFinish

SpecDeep == InitDeep /\ [][NextDeep]_vars

\* -------------------------------------------------------------- SpecVarint
\* util::encode_varint and util::decode_varint applied to lengths around
\* every group boundary, the buffer empty or holding bytes already.
VarintInputs ==
    { n \in {0, 10, 500, 20000, 250000000}
            \cup { m * Pow128(g) - e : m \in 1..128, g \in 0..3, e \in {0, 1} } :
        n >= 0 /\ n <= MAX_STRING_SIZE }

VarintCall(op, n, at, out) == [op |-> op, n |-> n, at |-> at, out |-> out]

\* push_data_length on a length within MAX_STRING_SIZE: encode_varint(n, buf)
EncodeVarint(n) ==
    /\ phase = "init"
    /\ bytes' = bytes \o encode_varint(n)
    /\ phase' = "encoded"
    /\ last' = VarintCall("encode_varint", n, Len(bytes), encode_varint(n))
    /\ UNCHANGED <<stack, garbage, debug, log, npush>>

\* decode_varint(buf, index) at the index the length was written at
DecodeVarint ==
    /\ phase = "encoded"
    /\ phase' = "decoded"
    /\ last' = VarintCall("decode_varint", last.n, last.at, decode_varint(bytes, last.at, debug))
    /\ UNCHANGED <<bytes, stack, garbage, debug, log, npush>>

NextVarint ==
    \/ \E n \in VarintInputs : EncodeVarint(n)
    \/ DecodeVarint

SpecVarint == Init /\ [][NextVarint]_vars

\* ---------------------------------------------------------------- documents
\* The documents the path engine and equals are applied to.  A value is a
\* record [dt, v]: v is <<>> for null, <<0>> or <<1>> for a bool, the bytes
\* of a string or of an encoded number, the elements of an array, the
\* members [key, val] of an object in the order they are pushed.
TNull == [dt |-> T_Null, v |-> <<>>]
TBool(x) == [dt |-> T_Bool, v |-> <<IF x THEN 1 ELSE 0>>]
TStr(s) == [dt |-> T_String, v |-> s]
TNum(s) == [dt |-> T_Number, v |-> s]
TArr(elems) == [dt |-> T_Array, v |-> elems]
TObj(members) == [dt |-> T_Object, v |-> members]
Mem(key, val) == [key |-> key, val |-> val]

IsContainer(dt) == dt \in {T_Object, T_Array}

\* the argument a push_<dt> call takes for a scalar
PushArg(t) == IF t.dt = T_Bool THEN t.v = <<1>> ELSE t.v

\* The document a tree is built into: the builders are run on it, arrays
\* through InnerArrayBuilder (try_new, push_*, finish), objects through
\* InnerObjectBuilder with key_sorted = false, nested containers through the
\* nested builders, scalar documents through Scalar::<dt>_with_vec.
RECURSIVE BuildTree(_, _), BuildElems(_, _, _, _), BuildMembers(_, _, _, _)
BuildElems(s, b, elems, i) ==
    IF i > Len(elems) THEN SealBytes(s, b)
    ELSE LET o == ArrPushValue(s, b, b.snap, elems[i].dt, PushArg(elems[i]))
             s1 == IF IsContainer(elems[i].dt) THEN BuildTree(o.bytes, elems[i]) ELSE o.bytes
         IN  BuildElems(s1, o.b, elems, i + 1)

BuildMembers(s, b, members, i) ==
    IF i > Len(members) THEN SealBytes(s, b)
    ELSE LET m == members[i]
             pos == CHOOSE p \in binary_search(m.key, s, b.start_pos, b.value_count).cands : TRUE
             o == ObjPushKeyValue(s, b, b.snap, m.key, pos, m.val.dt, PushArg(m.val))
             s1 == IF IsContainer(m.val.dt) THEN BuildTree(o.bytes, m.val) ELSE o.bytes
         IN  BuildMembers(s1, o.b, members, i + 1)

BuildTree(s, t) ==
    LET n == Len(t.v)
        start == Len(s) + DATA_TYPE_SIZE + ARRAY_SIZE
    IN  IF t.dt = T_Array
        THEN BuildElems(s \o ArrayHeader(n, 0), MkBuilder("array", n, FALSE, Len(s), start, 0, 1, 0), t.v, 1)
        ELSE IF t.dt = T_Object
        THEN BuildMembers(s \o ObjectHeader(n, 0), MkBuilder("object", n, FALSE, Len(s), start, 0, 1, 0), t.v, 1)
        ELSE s \o ObjValueBytes(t.dt, PushArg(t))

\* the bytes of the Yason a tree is built into
Encode(t) == LET s == BuildTree(<<>>, t) IN [i \in 1..Len(s) |-> Byte(s[i])]

\* ------------------------------------------------- path steps: path/parse.rs
\* SingleIndex: Index(n) or Last(n) (last - n)
Ix(n) == [last |-> FALSE, n |-> n]
La(n) == [last |-> TRUE, n |-> n]
\* SingleStep: Single(index) or Range(begin, end)
Single(a) == [k |-> "single", a |-> a, b |-> a]
Range(a, b) == [k |-> "range", a |-> a, b |-> b]
\* Step
St(k, key, a, b, cells) == [k |-> k, key |-> key, a |-> a, b |-> b, cells |-> cells]
Root == St("root", <<>>, Ix(0), Ix(0), <<>>)
Key(key) == St("key", key, Ix(0), Ix(0), <<>>)
ObjectWildcard == St("object_wildcard", <<>>, Ix(0), Ix(0), <<>>)
Index(n) == St("index", <<>>, Ix(n), Ix(n), <<>>)
Last(n) == St("last", <<>>, La(n), La(n), <<>>)
ArrayRange(a, b) == St("range", <<>>, a, b, <<>>)
Multiple(cells) == St("multiple", <<>>, Ix(0), Ix(0), cells)
ArrayWildcard == St("array_wildcard", <<>>, Ix(0), Ix(0), <<>>)
Descendent(key) == St("descendent", key, Ix(0), Ix(0), <<>>)
Func(f) == St(f, <<>>, Ix(0), Ix(0), <<>>)
IsFunc(st) == st.k \in {"count", "size", "type"}
IsArrayStep(st) == st.k \in {"index", "last", "range", "multiple", "array_wildcard"}

\* ------------------------------------------------- path/query.rs: find_range
Min(a, b) == IF a <= b THEN a ELSE b
Max(a, b) == IF a >= b THEN a ELSE b
\* find_range: [some, b, e] is Some((b, e)) or None; order, find_range_by_index
\* and find_range_by_last are its inner functions
find_range(begin, end, last_index) ==
    LET saturating_sub(a, b) == IF a >= b THEN a - b ELSE 0
        NoRange == [some |-> FALSE, b |-> 0, e |-> 0]
        find_range_by_index(begin_index, end_index) ==
            IF begin_index <= Min(end_index, last_index)
            THEN [some |-> TRUE, b |-> begin_index, e |-> Min(end_index, last_index)] ELSE NoRange
        find_range_by_last(minus1, minus2) ==
            IF minus1 <= last_index
            THEN [some |-> TRUE, b |-> saturating_sub(last_index, minus2), e |-> last_index - minus1]
            ELSE NoRange
        i1 == IF begin.last THEN saturating_sub(last_index, begin.n) ELSE begin.n
        i2 == IF end.last THEN saturating_sub(last_index, end.n) ELSE end.n
    IN  IF begin.last /\ end.last
        THEN find_range_by_last(Min(begin.n, end.n), Max(begin.n, end.n))
        ELSE find_range_by_index(Min(i1, i2), Max(i1, i2))

non_array_range_step_relaxed_match(begin, end) ==
    LET r == find_range(begin, end, 0) IN r.some /\ r.b = 0

non_array_multi_steps_relaxed_match(cells) ==
    \E j \in 1..Len(cells) :
        IF cells[j].k = "single" THEN cells[j].a.n = 0
        ELSE non_array_range_step_relaxed_match(cells[j].a, cells[j].b)

\* ------------------------------------------------ LazyValue: yason/mod.rs
\* y is the slice the value lies in, pos the position of its tag (of its
\* value-entry when in_array)
LazyValue(y, ty, pos, in_array) == [y |-> y, ty |-> ty, pos |-> pos, in_array |-> in_array]
Lazy(res, lv) == [res |-> res, lv |-> lv]
NoLazy(res) == Lazy(res, LazyValue(<<>>, 0, 0, FALSE))

\* LazyValue::try_from(&Yason)
LazyValue_try_from(d) ==
    LET t == Yason_read_type(d, 0) IN
    IF t.res # "Ok" THEN NoLazy(t.res) ELSE Lazy("Ok", LazyValue(d, t.dt, 0, FALSE))

\* a Value handed to the caller: the bytes of a string, of a number, of the
\* slice of a container, <<0>> or <<1>> for a bool
Value(dt, val) == [dt |-> dt, val |-> val]
ValueNull == Value(T_Null, <<>>)
\* Number::from(n): the number itself stands for its encoding
ValueNumber(n) == Value(T_Number, <<n>>)

\* LazyValue::value
LazyValue_value(lv, dbg) ==
    LET index == (lv.pos - (DATA_TYPE_SIZE + ARRAY_SIZE + ELEMENT_COUNT_SIZE)) \div VALUE_ENTRY_SIZE
        r == IF lv.in_array THEN Array_read_value(lv.y, index, dbg)
             ELSE Object_read_value(lv.y, lv.pos, dbg)
    IN  IF r.res # "Ok" THEN [res |-> r.res, v |-> ValueNull]
        ELSE IF IsContainer(r.dt)
        THEN [res |-> "Ok", v |-> Value(r.dt, SliceOf(lv.y, r.val[1], r.val[2]))]
        ELSE [res |-> "Ok", v |-> Value(r.dt, r.val)]

\* LazyValue::object / LazyValue::array: the slice of the container
LazyValue_container(lv, dbg) ==
    LET field == lv.pos + DATA_TYPE_SIZE
        r == IF ~lv.in_array THEN ReadContainer(lv.y, lv.pos, lv.ty, dbg)
             ELSE IF ~SliceOk(lv.y, field, field + 4) THEN OutOfBounds(Len(lv.y), field + 4)
             ELSE ReadContainer(lv.y, RdU32(lv.y, field) + DATA_TYPE_SIZE + ARRAY_SIZE, lv.ty, dbg)
    IN  IF r.res # "Ok" THEN [res |-> r.res, y |-> <<>>]
        ELSE [res |-> "Ok", y |-> SliceOf(lv.y, r.val[1], r.val[2])]

\* Array::lazy_get_unchecked / LazyArrayIter::next
Array_lazy_get_unchecked(a, index) ==
    LET value_entry_pos == DATA_TYPE_SIZE + ARRAY_SIZE + ELEMENT_COUNT_SIZE + index * VALUE_ENTRY_SIZE
        t == Yason_read_type(a, value_entry_pos)
    IN  IF t.res # "Ok" THEN NoLazy(t.res) ELSE Lazy("Ok", LazyValue(a, t.dt, value_entry_pos, TRUE))

\* Object::lazy_get: [res, found, lv]
Object_lazy_get(o, key) ==
    LET f == Object_find_key(o, key)
        t == Yason_read_type(o, f.pos)
    IN  IF f.res # "Ok" THEN [res |-> f.res, found |-> FALSE, lv |-> NoLazy("Ok").lv]
        ELSE IF ~f.found THEN [res |-> "Ok", found |-> FALSE, lv |-> NoLazy("Ok").lv]
        ELSE IF t.res # "Ok" THEN [res |-> t.res, found |-> FALSE, lv |-> NoLazy("Ok").lv]
        ELSE [res |-> "Ok", found |-> TRUE, lv |-> LazyValue(o, t.dt, f.pos, FALSE)]

\* Object::read_nth_key_and_value_pos: [res, key, pos]
Object_read_nth_key_and_value_pos(o, index) ==
    LET key_offset_pos == DATA_TYPE_SIZE + OBJECT_SIZE + ELEMENT_COUNT_SIZE + index * KEY_OFFSET_SIZE
        len_pos == RdU32(o, key_offset_pos) + DATA_TYPE_SIZE + OBJECT_SIZE
        key_pos == len_pos + KEY_LENGTH_SIZE
        end == key_pos + RdU16(o, len_pos)
    IN  IF ~SliceOk(o, key_offset_pos, key_offset_pos + 4) \/ ~SliceOk(o, len_pos, key_pos)
           \/ ~SliceOk(o, key_pos, end)
        THEN [res |-> "IndexOutOfBounds", key |-> <<>>, pos |-> 0]
        ELSE [res |-> "Ok", key |-> SliceOf(o, key_pos, end), pos |-> end]

\* LazyObjectValueIter::next (read_nth_type_and_value_pos; skip_key does not
\* slice the key: the position past it is only read by read_type)
Object_lazy_nth_value(o, index) ==
    LET key_offset_pos == DATA_TYPE_SIZE + OBJECT_SIZE + ELEMENT_COUNT_SIZE + index * KEY_OFFSET_SIZE
        len_pos == RdU32(o, key_offset_pos) + DATA_TYPE_SIZE + OBJECT_SIZE
        key_pos == len_pos + KEY_LENGTH_SIZE
        value_pos == key_pos + RdU16(o, len_pos)
        t == Yason_read_type(o, value_pos)
    IN  IF ~SliceOk(o, key_offset_pos, key_offset_pos + 4) \/ ~SliceOk(o, len_pos, key_pos)
        THEN NoLazy("IndexOutOfBounds")
        ELSE IF t.res # "Ok" THEN NoLazy(t.res)
        ELSE Lazy("Ok", LazyValue(o, t.dt, value_pos, FALSE))

\* ------------------------------------------------ Selector: path/query.rs
\* A Selector is c = [steps, with_wrapper, for_exists, dbg] and its query_buf,
\* which every matcher takes and returns: R(res, found, buf) is the
\* YasonResult<bool> of a matcher and the query_buf it leaves.
Selector(steps, with_wrapper, for_exists, dbg) ==
    [steps |-> steps, with_wrapper |-> with_wrapper, for_exists |-> for_exists, dbg |-> dbg]
R(res, found, buf) == [res |-> res, found |-> found, buf |-> buf]

\* DataType::name
DataTypeName(dt) ==
    CASE dt = T_Object -> <<111, 98, 106, 101, 99, 116>>
      [] dt = T_Array -> <<97, 114, 114, 97, 121>>
      [] dt = T_String -> <<115, 116, 114, 105, 110, 103>>
      [] dt = T_Number -> <<110, 117, 109, 98, 101, 114>>
      [] dt = T_Bool -> <<98, 111, 111, 108>>
      [] OTHER -> <<110, 117, 108, 108>>

RECURSIVE query_internal(_, _, _, _), ArrayLoop(_, _, _, _, _, _), ObjectValueLoop(_, _, _, _, _, _),
          MultiLoop(_, _, _, _, _, _, _), array_elements_match(_, _, _, _),
          object_key_match(_, _, _, _), object_wildcard_match(_, _, _, _),
          array_index_match(_, _, _, _), array_last_match(_, _, _, _),
          array_range_match(_, _, _, _), array_multi_steps_match(_, _, _, _),
          array_wildcard_match(_, _, _, _), non_array_relax_match(_, _, _, _),
          descendent_step_match(_, _, _, _)

\* for i in b..e + 1 { query_internal(array.lazy_get_unchecked(i)?, step)?; ... }
ArrayLoop(c, a, i, e, step_index, buf) ==
    LET matched(r) ==
            IF r.res # "Ok" THEN r
            ELSE IF c.for_exists /\ r.found THEN R("Ok", TRUE, r.buf)
            ELSE ArrayLoop(c, a, i + 1, e, step_index, r.buf)
        element(l) ==
            IF l.res # "Ok" THEN R(l.res, FALSE, buf)
            ELSE matched(query_internal(c, l.lv, step_index, buf))
    IN  IF i > e THEN R("Ok", FALSE, buf) ELSE element(Array_lazy_get_unchecked(a, i))

\* for val in object.lazy_value_iter()? { query_internal(val?, step)?; ... }
ObjectValueLoop(c, o, i, len, step_index, buf) ==
    LET matched(r) ==
            IF r.res # "Ok" THEN r
            ELSE IF c.for_exists /\ r.found THEN R("Ok", TRUE, r.buf)
            ELSE ObjectValueLoop(c, o, i + 1, len, step_index, r.buf)
        member(l) ==
            IF l.res # "Ok" THEN R(l.res, FALSE, buf)
            ELSE matched(query_internal(c, l.lv, step_index, buf))
    IN  IF i >= len THEN R("Ok", FALSE, buf) ELSE member(Object_lazy_nth_value(o, i))

\* for val in array.lazy_iter()? { query_internal(val?, step)?; ... }
array_elements_match(c, a, step_index, buf) ==
    IF ~LenOk(a) THEN R("IndexOutOfBounds", FALSE, buf)
    ELSE ArrayLoop(c, a, 0, ReadLen(a) - 1, step_index, buf)

query_internal(c, value, step_index, buf) ==
    LET push(v) == IF v.res # "Ok" THEN R(v.res, FALSE, buf) ELSE R("Ok", TRUE, Append(buf, v.v))
        size(a) ==
            IF a.res # "Ok" THEN R(a.res, FALSE, buf)
            ELSE IF ~LenOk(a.y) THEN R("IndexOutOfBounds", FALSE, buf)
            ELSE R("Ok", FALSE, Append(buf, ValueNumber(ReadLen(a.y))))
        step(k) ==
            CASE k = "key" -> object_key_match(c, value, step_index, buf)
              [] k = "object_wildcard" -> object_wildcard_match(c, value, step_index, buf)
              [] k = "index" -> array_index_match(c, value, step_index, buf)
              [] k = "last" -> array_last_match(c, value, step_index, buf)
              [] k = "range" -> array_range_match(c, value, step_index, buf)
              [] k = "multiple" -> array_multi_steps_match(c, value, step_index, buf)
              [] k = "array_wildcard" -> array_wildcard_match(c, value, step_index, buf)
              [] k = "descendent" -> descendent_step_match(c, value, step_index, buf)
              [] k = "root" -> R("panic", FALSE, buf)
              [] OTHER ->
                   \* func_step_match
                   IF c.dbg /\ (step_index + 1 # Len(c.steps) \/ ~c.with_wrapper) THEN R("panic", FALSE, buf)
                   ELSE IF k = "count" THEN R("Ok", FALSE, Append(buf, ValueNull))
                   ELSE IF k = "type" THEN R("Ok", FALSE, Append(buf, Value(T_String, DataTypeName(value.ty))))
                   ELSE IF value.ty # T_Array THEN R("Ok", FALSE, Append(buf, ValueNumber(1)))
                   ELSE size(LazyValue_container(value, c.dbg))
    IN  IF step_index = Len(c.steps)
        THEN IF c.for_exists THEN R("Ok", TRUE, buf)
             ELSE IF ~c.with_wrapper /\ buf # <<>> THEN R("MultiValuesWithoutWrapper", FALSE, buf)
             ELSE push(LazyValue_value(value, c.dbg))
        ELSE step(c.steps[step_index + 1].k)

object_key_match(c, value, step_index, buf) ==
    LET got(g) ==
            IF g.res # "Ok" THEN R(g.res, FALSE, buf)
            ELSE IF g.found THEN query_internal(c, g.lv, step_index + 1, buf)
            ELSE R("Ok", FALSE, buf)
        elements(r) == IF r.res = "Ok" /\ ~(c.for_exists /\ r.found) THEN R("Ok", FALSE, r.buf) ELSE r
        container(s) ==
            IF s.res # "Ok" THEN R(s.res, FALSE, buf)
            ELSE IF value.ty = T_Object THEN got(Object_lazy_get(s.y, c.steps[step_index + 1].key))
            ELSE elements(array_elements_match(c, s.y, step_index, buf))
    IN  IF ~IsContainer(value.ty) THEN R("Ok", FALSE, buf)
        ELSE container(LazyValue_container(value, c.dbg))

object_wildcard_match(c, value, step_index, buf) ==
    LET container(s) ==
            IF s.res # "Ok" THEN R(s.res, FALSE, buf)
            ELSE IF value.ty = T_Object
            THEN IF ~LenOk(s.y) THEN R("IndexOutOfBounds", FALSE, buf)
                 ELSE ObjectValueLoop(c, s.y, 0, ReadLen(s.y), step_index + 1, buf)
            ELSE array_elements_match(c, s.y, step_index, buf)
    IN  IF ~IsContainer(value.ty) THEN R("Ok", FALSE, buf)
        ELSE container(LazyValue_container(value, c.dbg))

array_index_match(c, value, step_index, buf) ==
    LET index == c.steps[step_index + 1].a.n
        element(l) ==
            IF l.res # "Ok" THEN R(l.res, FALSE, buf)
            ELSE query_internal(c, l.lv, step_index + 1, buf)
        array(s) ==
            IF s.res # "Ok" THEN R(s.res, FALSE, buf)
            ELSE IF ~LenOk(s.y) THEN R("IndexOutOfBounds", FALSE, buf)
            ELSE IF index < ReadLen(s.y) THEN element(Array_lazy_get_unchecked(s.y, index))
            ELSE R("Ok", FALSE, buf)
    IN  IF value.ty # T_Array
        THEN IF index = 0 THEN non_array_relax_match(c, value, step_index + 1, buf) ELSE R("Ok", FALSE, buf)
        ELSE array(LazyValue_container(value, c.dbg))

array_last_match(c, value, step_index, buf) ==
    LET minus == c.steps[step_index + 1].a.n
        element(l) ==
            IF l.res # "Ok" THEN R(l.res, FALSE, buf)
            ELSE query_internal(c, l.lv, step_index + 1, buf)
        array(s) ==
            IF s.res # "Ok" THEN R(s.res, FALSE, buf)
            ELSE IF ~LenOk(s.y) THEN R("IndexOutOfBounds", FALSE, buf)
            ELSE IF ReadLen(s.y) > minus
            THEN element(Array_lazy_get_unchecked(s.y, ReadLen(s.y) - 1 - minus))
            ELSE R("Ok", FALSE, buf)
    IN  IF value.ty # T_Array
        THEN IF minus = 0 THEN non_array_relax_match(c, value, step_index + 1, buf) ELSE R("Ok", FALSE, buf)
        ELSE array(LazyValue_container(value, c.dbg))

array_range_match(c, value, step_index, buf) ==
    LET st == c.steps[step_index + 1]
        range(a, r) ==
            IF r.some THEN ArrayLoop(c, a, r.b, r.e, step_index + 1, buf) ELSE R("Ok", FALSE, buf)
        array(s) ==
            IF s.res # "Ok" THEN R(s.res, FALSE, buf)
            ELSE IF ~LenOk(s.y) THEN R("IndexOutOfBounds", FALSE, buf)
            ELSE IF ReadLen(s.y) = 0 THEN R("Ok", FALSE, buf)
            ELSE range(s.y, find_range(st.a, st.b, ReadLen(s.y) - 1))
    IN  IF value.ty # T_Array
        THEN IF non_array_range_step_relaxed_match(st.a, st.b)
             THEN non_array_relax_match(c, value, step_index + 1, buf) ELSE R("Ok", FALSE, buf)
        ELSE array(LazyValue_container(value, c.dbg))

\* while arr_steps_index < arr_steps.len() { ... }
MultiLoop(c, a, len, cells, j, step_index, buf) ==
    LET one(i) == [some |-> TRUE, b |-> i, e |-> i]
        none == [some |-> FALSE, b |-> 0, e |-> 0]
        cell_range(cell) ==
            IF cell.k = "range" THEN find_range(cell.a, cell.b, len - 1)
            ELSE IF cell.a.last
            THEN (IF len > cell.a.n THEN one(len - 1 - cell.a.n) ELSE none)
            ELSE (IF cell.a.n < len THEN one(cell.a.n) ELSE none)
        matched(r) ==
            IF r.res # "Ok" \/ (c.for_exists /\ r.found) THEN r
            ELSE MultiLoop(c, a, len, cells, j + 1, step_index, r.buf)
        range(cr) ==
            matched(IF cr.some THEN ArrayLoop(c, a, cr.b, cr.e, step_index + 1, buf)
                    ELSE R("Ok", FALSE, buf))
    IN  IF j > Len(cells) THEN R("Ok", FALSE, buf) ELSE range(cell_range(cells[j]))

array_multi_steps_match(c, value, step_index, buf) ==
    LET st == c.steps[step_index + 1]
        array(s) ==
            IF s.res # "Ok" THEN R(s.res, FALSE, buf)
            ELSE IF ~LenOk(s.y) THEN R("IndexOutOfBounds", FALSE, buf)
            ELSE IF ReadLen(s.y) = 0 THEN R("Ok", FALSE, buf)
            ELSE MultiLoop(c, s.y, ReadLen(s.y), st.cells, 1, step_index, buf)
    IN  IF value.ty # T_Array
        THEN IF non_array_multi_steps_relaxed_match(st.cells)
             THEN non_array_relax_match(c, value, step_index + 1, buf) ELSE R("Ok", FALSE, buf)
        ELSE array(LazyValue_container(value, c.dbg))

array_wildcard_match(c, value, step_index, buf) ==
    LET array(s) ==
            IF s.res # "Ok" THEN R(s.res, FALSE, buf)
            ELSE array_elements_match(c, s.y, step_index + 1, buf)
    IN  IF value.ty # T_Array THEN non_array_relax_match(c, value, step_index + 1, buf)
        ELSE array(LazyValue_container(value, c.dbg))

non_array_relax_match(c, value, step_index, buf) ==
    LET relaxed(st) ==
            CASE st.k = "index" -> st.a.n = 0
              [] st.k = "last" -> st.a.n = 0
              [] st.k = "range" -> non_array_range_step_relaxed_match(st.a, st.b)
              [] st.k = "multiple" -> non_array_multi_steps_relaxed_match(st.cells)
              [] OTHER -> TRUE
    IN  IF step_index < Len(c.steps) /\ IsArrayStep(c.steps[step_index + 1])
        THEN IF relaxed(c.steps[step_index + 1])
             THEN non_array_relax_match(c, value, step_index + 1, buf)
             ELSE R("Ok", FALSE, buf)
        ELSE query_internal(c, value, step_index, buf)

\* a descendent step that is consumed by its first match
descendent_step_match_consumed(c, value, step_index, buf) ==
    LET got(o, g) ==
            IF g.res # "Ok" THEN R(g.res, FALSE, buf)
            ELSE IF g.found THEN query_internal(c, g.lv, step_index + 1, buf)
            ELSE IF ~LenOk(o) THEN R("IndexOutOfBounds", FALSE, buf)
            ELSE ObjectValueLoop(c, o, 0, ReadLen(o), step_index, buf)
        container(s) ==
            IF s.res # "Ok" THEN R(s.res, FALSE, buf)
            ELSE IF value.ty = T_Array THEN array_elements_match(c, s.y, step_index, buf)
            ELSE got(s.y, Object_lazy_get(s.y, c.steps[step_index + 1].key))
    IN  IF ~IsContainer(value.ty) THEN R("Ok", FALSE, buf)
        ELSE container(LazyValue_container(value, c.dbg))

descendent_step_match(c, value, step_index, buf) ==
    LET members(o, r) ==
            IF r.res # "Ok" \/ (c.for_exists /\ r.found) THEN r
            ELSE IF ~LenOk(o) THEN R("IndexOutOfBounds", FALSE, r.buf)
            ELSE ObjectValueLoop(c, o, 0, ReadLen(o), step_index, r.buf)
        got(o, g) ==
            members(o, IF g.res = "Ok" /\ g.found THEN query_internal(c, g.lv, step_index + 1, buf)
                       ELSE R(g.res, FALSE, buf))
        container(s) ==
            IF s.res # "Ok" THEN R(s.res, FALSE, buf)
            ELSE IF value.ty = T_Array THEN array_elements_match(c, s.y, step_index, buf)
            ELSE got(s.y, Object_lazy_get(s.y, c.steps[step_index + 1].key))
    IN  IF ~IsContainer(value.ty) THEN R("Ok", FALSE, buf)
        ELSE container(LazyValue_container(value, c.dbg))

\* Selector::query
Selector_query(c, d, step_index) ==
    LET from(l) ==
            IF l.res # "Ok" THEN R(l.res, FALSE, <<>>) ELSE query_internal(c, l.lv, step_index, <<>>)
    IN  from(LazyValue_try_from(d))

\* ------------------------------------------- PathExpression: path/mod.rs
\* a test that takes only count() for a method
has_method_count_only(steps) == Len(steps) > 1 /\ steps[Len(steps)].k = "count"

has_method(steps) == Len(steps) > 1 /\ IsFunc(steps[Len(steps)])

\* the QueriedValue or the error a query returns
Queried(res, vals) == [res |-> res, vals |-> vals]

\* a query that tests the buffer for emptiness before it counts
PathExpression_query_empty_first(steps, d, with_wrapper, dbg) ==
    LET selected(r) ==
            IF r.res # "Ok" THEN Queried(r.res, <<>>)
            ELSE IF ~with_wrapper
            THEN IF dbg /\ Len(r.buf) > 1 THEN Queried("panic", <<>>)
                 ELSE IF r.buf = <<>> THEN Queried("None", <<>>)
                 ELSE Queried("Value", <<r.buf[Len(r.buf)]>>)
            ELSE IF r.buf = <<>> THEN Queried("None", <<>>)
            ELSE IF Len(steps) > 1 /\ steps[Len(steps)].k = "count"
            THEN Queried("Values", <<ValueNumber(Len(r.buf))>>)
            ELSE Queried("Values", r.buf)
    IN  IF has_method(steps) /\ ~with_wrapper THEN Queried("MultiValuesWithoutWrapper", <<>>)
        ELSE selected(Selector_query(Selector(steps, with_wrapper, FALSE, dbg), d, 1))

\* PathExpression::query with no query_buf and no result_buf
PathExpression_query(steps, d, with_wrapper, dbg) ==
    LET has_method_count == Len(steps) > 1 /\ steps[Len(steps)].k = "count"
        wrapped(buf) == IF buf = <<>> THEN Queried("None", <<>>) ELSE Queried("Values", buf)
        selected(r) ==
            IF r.res # "Ok" THEN Queried(r.res, <<>>)
            ELSE IF ~with_wrapper
            THEN IF dbg /\ Len(r.buf) > 1 THEN Queried("panic", <<>>)
                 ELSE IF r.buf = <<>> THEN Queried("None", <<>>)
                 ELSE Queried("Value", <<r.buf[Len(r.buf)]>>)
            ELSE wrapped(IF has_method_count THEN <<ValueNumber(Len(r.buf))>> ELSE r.buf)
    IN  IF has_method(steps) /\ ~with_wrapper THEN Queried("MultiValuesWithoutWrapper", <<>>)
        ELSE selected(Selector_query(Selector(steps, with_wrapper, FALSE, dbg), d, 1))

\* PathExpression::exists: "true", "false" or the error
PathExpression_exists(steps, d, dbg) ==
    LET selected(r) == IF r.res # "Ok" THEN r.res ELSE IF r.found THEN "true" ELSE "false"
    IN  IF has_method(steps) THEN "InvalidPathExpression"
        ELSE selected(Selector_query(Selector(steps, TRUE, TRUE, dbg), d, 1))

\* --------------------------------------------------------------- equality
\* "true", "false" or the error of a comparison
RECURSIVE LazyValue_equals(_, _, _), Object_equals(_, _, _), Array_equals(_, _, _)

\* LazyValue::equals: the kinds and the lengths of the slices the two values
\* lie in are compared first
LazyValue_equals(l, r, dbg) ==
    IF l.ty # r.ty \/ Len(l.y) # Len(r.y) THEN "false"
    ELSE IF IsContainer(l.ty)
    THEN LET lc == LazyValue_container(l, dbg)
             rc == LazyValue_container(r, dbg)
         IN  IF lc.res # "Ok" THEN lc.res
             ELSE IF rc.res # "Ok" THEN rc.res
             ELSE IF l.ty = T_Object THEN Object_equals(lc.y, rc.y, dbg)
             ELSE Array_equals(lc.y, rc.y, dbg)
    ELSE IF l.ty = T_Null THEN "true"
    ELSE LET lv == LazyValue_value(l, dbg)
             rv == LazyValue_value(r, dbg)
         IN  IF lv.res # "Ok" THEN lv.res
             ELSE IF rv.res # "Ok" THEN rv.res
             ELSE IF lv.v.val = rv.v.val THEN "true" ELSE "false"

\* Object::equals: the entries of the two tables are compared pairwise, key
\* then value, through LazyObjectIter
Object_equals(lo, ro, dbg) ==
    LET RECURSIVE Entries(_)
        Entries(i) ==
            IF i >= ReadLen(lo) THEN "true"
            ELSE LET le == Object_read_nth_key_and_value_pos(lo, i)
                     lt == Yason_read_type(lo, le.pos)
                     re == Object_read_nth_key_and_value_pos(ro, i)
                     rt == Yason_read_type(ro, re.pos)
                 IN  IF le.res # "Ok" THEN le.res
                     ELSE IF lt.res # "Ok" THEN lt.res
                     ELSE IF re.res # "Ok" THEN re.res
                     ELSE IF rt.res # "Ok" THEN rt.res
                     ELSE IF le.key # re.key THEN "false"
                     ELSE LET res == LazyValue_equals(LazyValue(lo, lt.dt, le.pos, FALSE),
                                                      LazyValue(ro, rt.dt, re.pos, FALSE), dbg)
                          IN  IF res # "true" THEN res ELSE Entries(i + 1)
    IN  IF ~LenOk(lo) \/ ~LenOk(ro) THEN "IndexOutOfBounds"
        ELSE IF ReadLen(lo) # ReadLen(ro) THEN "false"
        ELSE Entries(0)

\* Array::equals: the elements are compared pairwise through LazyArrayIter
Array_equals(la, ra, dbg) ==
    LET RECURSIVE Elements(_)
        Elements(i) ==
            IF i >= ReadLen(la) THEN "true"
            ELSE LET le == Array_lazy_get_unchecked(la, i)
                     re == Array_lazy_get_unchecked(ra, i)
                 IN  IF le.res # "Ok" THEN le.res
                     ELSE IF re.res # "Ok" THEN re.res
                     ELSE LET res == LazyValue_equals(le.lv, re.lv, dbg)
                          IN  IF res # "true" THEN res ELSE Elements(i + 1)
    IN  IF ~LenOk(la) \/ ~LenOk(ra) THEN "IndexOutOfBounds"
        ELSE IF ReadLen(la) # ReadLen(ra) THEN "false"
        ELSE Elements(0)

\* Yason::equals
Yason_equals(a, b, dbg) ==
    LET at == Yason_read_type(a, 0)
        bt == Yason_read_type(b, 0)
    IN  IF Len(a) # Len(b) THEN "false"
        ELSE IF at.res # "Ok" THEN at.res
        ELSE IF bt.res # "Ok" THEN bt.res
        ELSE IF at.dt # bt.dt THEN "false"
        ELSE LazyValue_equals(LazyValue_try_from(a).lv, LazyValue_try_from(b).lv, dbg)

\* -------------------------------------------------------------- formatting
\* Formatter (format/mod.rs), CompactFormatter and PrettyFormatter
\* (format/pretty.rs).  The writer is a record: res, the text written (byte
\* codes), cur_indent_level and has_value of the pretty formatter, and the
\* largest number of spaces an indent asked for.
SPACE_BUF == 200
PrettyIndent == 2

Writer == [res |-> "Ok", out |-> <<>>, level |-> 0, has_value |-> FALSE, ind |-> 0]
Put(w, text) == IF w.res # "Ok" THEN w ELSE [w EXCEPT !.out = @ \o text]
Fail(w, res) == IF w.res # "Ok" THEN w ELSE [w EXCEPT !.res = res]

\* pretty::indent: &SPACE_BUF[..level * indent] panics past the 200 spaces
indent(w) ==
    LET n == w.level * PrettyIndent IN
    IF w.res # "Ok" THEN w
    ELSE IF n > SPACE_BUF THEN [w EXCEPT !.res = "panic", !.ind = n]
    ELSE [w EXCEPT !.out = @ \o [i \in 1..n |-> 32], !.ind = Max(@, n)]

\* begin_object / begin_array, end_object / end_array (newline_in_empty is
\* true), begin_object_key / begin_array_value, end_object_value /
\* end_array_value
begin_container(pretty, w, open) ==
    IF pretty THEN Put([w EXCEPT !.level = @ + 1, !.has_value = FALSE], <<open>>)
    ELSE Put(w, <<open>>)

end_container(pretty, w, close) ==
    IF pretty THEN Put(indent(Put([w EXCEPT !.level = @ - 1], <<10>>)), <<close>>)
    ELSE Put(w, <<close>>)

begin_value(pretty, w, first) ==
    IF pretty THEN indent(Put(w, IF first THEN <<10>> ELSE <<44, 10>>))
    ELSE Put(w, IF first THEN <<>> ELSE <<44>>)

end_value(pretty, w) == IF pretty THEN [w EXCEPT !.has_value = TRUE] ELSE w

\* the ESCAPE table: \b \t \n \f \r \" \\ and \u00XX for the other control
\* bytes and 0x7F
HexDigit(n) == IF n < 10 THEN 48 + n ELSE 55 + n
EscapeByte(b) ==
    IF b = 8 THEN <<92, 98>> ELSE IF b = 9 THEN <<92, 116>> ELSE IF b = 10 THEN <<92, 110>>
    ELSE IF b = 12 THEN <<92, 102>> ELSE IF b = 13 THEN <<92, 114>>
    ELSE IF b = 34 THEN <<92, 34>> ELSE IF b = 92 THEN <<92, 92>>
    ELSE IF b < 32 \/ b = 127 THEN <<92, 117, 48, 48, HexDigit(b \div 16), HexDigit(b % 16)>>
    ELSE <<b>>

RECURSIVE format_escaped_str(_, _)
format_escaped_str(value, i) ==
    IF i > Len(value) THEN <<>> ELSE EscapeByte(value[i]) \o format_escaped_str(value, i + 1)

write_string(w, value) == Put(w, <<34>> \o format_escaped_str(value, 1) \o <<34>>)

\* Number::format_to_json is code of the crate decimal_rs: the text of a
\* number is kept as its payload, each byte marked
write_number(w, value) == Put(w, [i \in 1..Len(value) |-> 1000 + value[i]])

write_bool(w, value) ==
    Put(w, IF value = <<1>> THEN <<116, 114, 117, 101>> ELSE <<102, 97, 108, 115, 101>>)

write_null(w) == Put(w, <<110, 117, 108, 108>>)

RECURSIVE write_lazy_value(_, _, _, _), write_container(_, _, _, _, _)

\* Formatter::write_lazy_value
write_lazy_value(pretty, w, lv, dbg) ==
    LET container(c) ==
            IF c.res # "Ok" THEN Fail(w, c.res) ELSE write_container(pretty, w, c.y, lv.ty, dbg)
        scalar(v) ==
            IF v.res # "Ok" THEN Fail(w, v.res)
            ELSE IF lv.ty = T_String THEN write_string(w, v.v.val)
            ELSE IF lv.ty = T_Number THEN write_number(w, v.v.val)
            ELSE write_bool(w, v.v.val)
    IN  IF w.res # "Ok" THEN w
        ELSE IF IsContainer(lv.ty) THEN container(LazyValue_container(lv, dbg))
        ELSE IF lv.ty = T_Null THEN write_null(w)
        ELSE scalar(LazyValue_value(lv, dbg))

\* Formatter::write_object with PrettyFormatter::write_object_value (a
\* newline and an indent before a nested container), Formatter::write_array
\* with write_array_value
write_container(pretty, w, y, ty, dbg) ==
    LET member(wi, e, t, first) ==
            IF t.res # "Ok" THEN Fail(wi, t.res)
            ELSE LET w1 == begin_value(pretty, wi, first)
                     w2 == Put(write_string(w1, e.key), IF pretty THEN <<32, 58, 32>> ELSE <<58>>)
                     w3 == IF pretty /\ IsContainer(t.dt) THEN indent(Put(w2, <<10>>)) ELSE w2
                 IN  end_value(pretty, write_lazy_value(pretty, w3, LazyValue(y, t.dt, e.pos, FALSE), dbg))
        entry(wi, e, first) ==
            IF e.res # "Ok" THEN Fail(wi, e.res) ELSE member(wi, e, Yason_read_type(y, e.pos), first)
        element(wi, e, first) ==
            IF e.res # "Ok" THEN Fail(wi, e.res)
            ELSE end_value(pretty, write_lazy_value(pretty, begin_value(pretty, wi, first), e.lv, dbg))
        RECURSIVE Each(_, _)
        Each(wi, i) ==
            IF wi.res # "Ok" \/ i >= ReadLen(y) THEN wi
            ELSE IF ty = T_Object
            THEN Each(entry(wi, Object_read_nth_key_and_value_pos(y, i), i = 0), i + 1)
            ELSE Each(element(wi, Array_lazy_get_unchecked(y, i), i = 0), i + 1)
        open(w1) ==
            IF ~LenOk(y) THEN Fail(w1, "IndexOutOfBounds")
            ELSE end_container(pretty, Each(w1, 0), IF ty = T_Object THEN 125 ELSE 93)
    IN  open(begin_container(pretty, w, IF ty = T_Object THEN 123 ELSE 91))

\* Yason::format_to
Yason_format_to(d, pretty, dbg) ==
    LET k(l) == IF l.res # "Ok" THEN Fail(Writer, l.res) ELSE write_lazy_value(pretty, Writer, l.lv, dbg)
    IN  k(LazyValue_try_from(d))

\* ----------------------------------------------- PathParser: path/parse.rs
ROOT == 36
DOT == 46
COMMA == 44
BEGIN_ARRAY == 91
END_ARRAY == 93
LEFT_BRACKET == 40
RIGHT_BRACKET == 41
DOUBLE_QUOTE == 34
WILDCARD == 42
MINUS == 45
BACKSLASH == 92
SPACE == 32
I32_MAX == 2147483647
LAST == <<108, 97, 115, 116>>
TO == <<116, 111>>
COUNT == <<99, 111, 117, 110, 116>>
SIZE == <<115, 105, 122, 101>>
TYPE == <<116, 121, 112, 101>>

\* u8::is_ascii_whitespace, is_ascii_digit, is_ascii_alphabetic
AsciiWhitespace == {9, 10, 12, 13, 32}
AsciiDigit == 48..57
AsciiAlphabetic == (65..90) \cup (97..122)
\* Option::None of peek() and pop()
NoByte == 0 - 1

\* PathParseResult of the step parsers: the error kind and position, or the
\* parser's pos and path after the step
PErr(kind, at) == [res |-> kind, at |-> at, pos |-> 0, path |-> <<>>]
POk(pos, path) == [res |-> "Ok", at |-> 0, pos |-> pos, path |-> path]
\* PathParseResult<T> of the value parsers
VErr(kind, at) == [res |-> kind, at |-> at, pos |-> 0, v |-> 0]
VOk(pos, v) == [res |-> "Ok", at |-> 0, pos |-> pos, v |-> v]

exhausted(in, pos) == pos >= Len(in)
peek(in, pos) == IF pos < Len(in) THEN in[pos + 1] ELSE NoByte
\* self.pos after pop()
pop_pos(in, pos) == IF exhausted(in, pos) THEN pos ELSE pos + 1

RECURSIVE skip(_, _, _)
skip(in, pos, f) ==
    IF pos < Len(in) /\ in[pos + 1] \in f THEN skip(in, pos + 1, f) ELSE pos

eat_whitespaces(in, pos) == skip(in, pos, AsciiWhitespace)

has_keyword(in, pos, keyword) ==
    /\ pos < Len(in)
    /\ Len(in) - pos >= Len(keyword)
    /\ SubSeq(in, pos + 1, pos + Len(keyword)) = keyword

\* the loop of parse_index over input[begin..pos]: NoByte when the value
\* passes i32::MAX
RECURSIVE index_value(_, _, _, _)
index_value(in, i, end, res) ==
    IF i > end THEN res
    ELSE IF res > (I32_MAX - (in[i] - 48)) \div 10 THEN NoByte
    ELSE index_value(in, i + 1, end, res * 10 + (in[i] - 48))

parse_index(in, begin) ==
    LET end == skip(in, begin, AsciiDigit)
        k(res) == IF res = NoByte THEN VErr("ArrayIndexTooLong", begin + 1)
                  ELSE VOk(end, res)
    IN k(index_value(in, begin + 1, end, 0))

parse_array_last(in, pos0) ==
    LET pos == eat_whitespaces(in, pos0 + Len(LAST))
        minus(p) ==
            LET k(r) == IF r.res = "Ok" THEN VOk(r.pos, La(r.v)) ELSE r
            IN IF peek(in, p) \in AsciiDigit THEN k(parse_index(in, p))
               ELSE VErr("ArrayStepSyntaxError", p + 1)
    IN IF peek(in, pos) = MINUS THEN minus(eat_whitespaces(in, pos + 1))
       ELSE IF peek(in, pos) = NoByte THEN VErr("MissingSquareBracket", pos)
       ELSE VOk(pos, La(0))

parse_array_index(in, pos) ==
    LET k(r) == IF r.res = "Ok" THEN VOk(r.pos, Ix(r.v)) ELSE r
    IN IF peek(in, pos) \in AsciiDigit THEN k(parse_index(in, pos))
       ELSE IF peek(in, pos) = NoByte THEN VErr("MissingSquareBracket", pos)
       ELSE VErr("ArrayStepSyntaxError", pos + 1)

parse_last_or_index(in, pos) ==
    IF has_keyword(in, pos, LAST) THEN parse_array_last(in, pos)
    ELSE parse_array_index(in, pos)

RECURSIVE parse_array_cell(_, _, _)
parse_array_cell(in, pos, steps) ==
    LET pushed(p, steps2) ==
            IF peek(in, p) = COMMA
            THEN parse_array_cell(in, eat_whitespaces(in, p + 1), steps2)
            ELSE VOk(p, steps2)
        range(begin, end) ==
            IF end.res # "Ok" THEN end
            ELSE pushed(eat_whitespaces(in, end.pos), Append(steps, Range(begin.v, end.v)))
        single(begin, p) ==
            IF has_keyword(in, p, TO)
            THEN range(begin, parse_last_or_index(in, eat_whitespaces(in, p + Len(TO))))
            ELSE pushed(eat_whitespaces(in, p), Append(steps, Single(begin.v)))
        k(begin) ==
            IF begin.res # "Ok" THEN begin
            ELSE single(begin, eat_whitespaces(in, begin.pos))
    IN k(parse_last_or_index(in, pos))

\* the Step::Array pushed for the cells of one array step
ArrayStepOf(steps) ==
    IF Len(steps) = 1
    THEN IF steps[1].k = "single"
         THEN IF steps[1].a.last THEN Last(steps[1].a.n) ELSE Index(steps[1].a.n)
         ELSE ArrayRange(steps[1].a, steps[1].b)
    ELSE Multiple(steps)

parse_array_step(in, pos0, path) ==
    LET pos == eat_whitespaces(in, pos0)
        close(p, path2) ==
            IF peek(in, p) # END_ARRAY
            THEN PErr("MissingSquareBracket", pop_pos(in, p))
            ELSE POk(p + 1, path2)
        k(r) == IF r.res # "Ok" THEN PErr(r.res, r.at)
                ELSE close(eat_whitespaces(in, r.pos), Append(path, ArrayStepOf(r.v)))
    IN IF peek(in, pos) = END_ARRAY THEN PErr("EmptyArrayStep", pos)
       ELSE IF peek(in, pos) = NoByte THEN PErr("MissingSquareBracket", pos)
       ELSE IF peek(in, pos) = WILDCARD
       THEN close(eat_whitespaces(in, pos + 1), Append(path, ArrayWildcard))
       ELSE k(parse_array_cell(in, pos, <<>>))

\* HEX[v]: the value of a hexadecimal digit, NoByte for any other byte
decode_hex_val(v) ==
    IF v \in 48..57 THEN v - 48
    ELSE IF v \in 65..70 THEN v - 55
    ELSE IF v \in 97..102 THEN v - 87
    ELSE NoByte

\* char::encode_utf8 of a code point below 0x10000
encode_utf8(n) ==
    IF n < 128 THEN <<n>>
    ELSE IF n < 2048 THEN <<192 + (n \div 64), 128 + (n % 64)>>
    ELSE <<224 + (n \div 4096), 128 + ((n \div 64) % 64), 128 + (n % 64)>>

parse_unicode_escape(in, pos) ==
    LET h(i) == decode_hex_val(in[pos + i])
        n == ((h(1) * 16 + h(2)) * 16 + h(3)) * 16 + h(4)
    IN IF pos + 4 > Len(in) THEN VErr("InvalidEscapeSequence", pos)
       ELSE IF \E i \in 1..4 : h(i) = NoByte THEN VErr("InvalidEscapeSequence", pos)
       ELSE IF n \in 55296..57343 THEN VErr("InvalidEscapeSequence", pos)
       ELSE VOk(pos + 4, n)

\* the byte an escape character stands for, NoByte when it is none
EscapeOf(c) ==
    IF c = 98 THEN 8
    ELSE IF c = 102 THEN 12
    ELSE IF c = 110 THEN 10
    ELSE IF c = 114 THEN 13
    ELSE IF c = 116 THEN 9
    ELSE IF c \in {34, 47, 92} THEN c
    ELSE NoByte

parse_escape(in, pos, buf) ==
    LET u(r) == IF r.res # "Ok" THEN r ELSE VOk(r.pos, buf \o encode_utf8(r.v))
    IN IF peek(in, pos) = NoByte THEN VErr("UnclosedQuotedStep", pos)
       ELSE IF peek(in, pos) = 117 THEN u(parse_unicode_escape(in, pos + 1))
       ELSE IF EscapeOf(peek(in, pos)) = NoByte THEN VErr("InvalidEscapeSequence", pos + 1)
       ELSE VOk(pos + 1, Append(buf, EscapeOf(peek(in, pos))))

\* std::str::from_utf8(bytes).is_ok()
RECURSIVE from_utf8_ok(_, _)
from_utf8_ok(b, i) ==
    LET cont(j, lo, hi) == j <= Len(b) /\ b[j] >= lo /\ b[j] <= hi
    IN IF i > Len(b) THEN TRUE
       ELSE IF b[i] < 128 THEN from_utf8_ok(b, i + 1)
       ELSE IF b[i] \in 194..223 THEN cont(i + 1, 128, 191) /\ from_utf8_ok(b, i + 2)
       ELSE IF b[i] \in 224..239
       THEN /\ cont(i + 1, IF b[i] = 224 THEN 160 ELSE 128, IF b[i] = 237 THEN 159 ELSE 191)
            /\ cont(i + 2, 128, 191)
            /\ from_utf8_ok(b, i + 3)
       ELSE IF b[i] \in 240..244
       THEN /\ cont(i + 1, IF b[i] = 240 THEN 144 ELSE 128, IF b[i] = 244 THEN 143 ELSE 191)
            /\ cont(i + 2, 128, 191)
            /\ cont(i + 3, 128, 191)
            /\ from_utf8_ok(b, i + 4)
       ELSE FALSE

\* create_key::<true> at parser position pos
create_key(b, pos) ==
    IF from_utf8_ok(b, 1) THEN VOk(pos, b) ELSE VErr("InvalidKeyStep", pos)

\* the loop of parse_quoted_field_name: the key and the position after the
\* closing quote
RECURSIVE quoted_field_name(_, _, _, _)
quoted_field_name(in, pos, buf, begin) ==
    LET k(r) == IF r.res # "Ok" THEN r ELSE quoted_field_name(in, r.pos, r.v, r.pos)
    IN IF peek(in, pos) = NoByte THEN VErr("UnclosedQuotedStep", pos)
       ELSE IF peek(in, pos) = BACKSLASH
       THEN k(parse_escape(in, pos + 1, buf \o SubSeq(in, begin + 1, pos)))
       ELSE IF peek(in, pos) = DOUBLE_QUOTE
       THEN create_key(buf \o SubSeq(in, begin + 1, pos), pos + 1)
       ELSE quoted_field_name(in, pos + 1, buf, begin)

parse_quoted_field_name(in, pos, path, descendent) ==
    LET k(r) == IF r.res # "Ok" THEN PErr(r.res, r.at)
                ELSE POk(r.pos, Append(path, IF descendent THEN Descendent(r.v) ELSE Key(r.v)))
    IN k(quoted_field_name(in, pos + 1, <<>>, pos + 1))

\* a variant of parse_item_method that does not look at what follows `)`
parse_item_method_unended(in, pos0, path, field_name, begin_pos) ==
    LET pos == eat_whitespaces(in, pos0 + 1)
    IN IF peek(in, pos) = RIGHT_BRACKET
       THEN IF field_name = COUNT THEN POk(pos + 1, Append(path, Func("count")))
            ELSE IF field_name = SIZE THEN POk(pos + 1, Append(path, Func("size")))
            ELSE IF field_name = TYPE THEN POk(pos + 1, Append(path, Func("type")))
            ELSE PErr("InvalidFunction", begin_pos)
       ELSE PErr("InvalidFunction", begin_pos)

parse_item_method(in, pos0, path, field_name, begin_pos) ==
    LET pos == eat_whitespaces(in, pos0 + 1)
        end == eat_whitespaces(in, pos + 1)
    IN IF peek(in, pos) = RIGHT_BRACKET
       THEN IF ~exhausted(in, end) THEN PErr("UnexpectedCharacterAtEnd", end + 1)
            ELSE IF field_name = COUNT THEN POk(end, Append(path, Func("count")))
            ELSE IF field_name = SIZE THEN POk(end, Append(path, Func("size")))
            ELSE IF field_name = TYPE THEN POk(end, Append(path, Func("type")))
            ELSE PErr("InvalidFunction", begin_pos)
       ELSE PErr("InvalidFunction", begin_pos)

parse_unquoted_field_name(in, pos0, path, descendent) ==
    LET begin == eat_whitespaces(in, pos0)
        end == skip(in, begin, AsciiAlphabetic \cup AsciiDigit)
        pos == eat_whitespaces(in, end)
        field_name == SubSeq(in, begin + 1, end)
    IN IF peek(in, begin) \notin AsciiAlphabetic THEN PErr("InvalidKeyStep", begin + 1)
       ELSE IF descendent THEN POk(end, Append(path, Descendent(field_name)))
       ELSE IF peek(in, pos) = LEFT_BRACKET
       THEN parse_item_method(in, pos, path, field_name, begin + 1)
       ELSE IF peek(in, pos) \in {DOT, BEGIN_ARRAY, NoByte}
       THEN POk(pos, Append(path, Key(field_name)))
       ELSE PErr("UnexpectedCharacterAtEnd", pos + 1)

parse_object_step(in, pos0, path) ==
    LET pos == eat_whitespaces(in, pos0)
    IN IF peek(in, pos) = NoByte THEN PErr("InvalidKeyStep", pos)
       ELSE IF peek(in, pos) = WILDCARD THEN POk(pos + 1, Append(path, ObjectWildcard))
       ELSE IF peek(in, pos) = DOUBLE_QUOTE THEN parse_quoted_field_name(in, pos, path, FALSE)
       ELSE parse_unquoted_field_name(in, pos, path, FALSE)

parse_descendent_step(in, pos0, path) ==
    LET pos == eat_whitespaces(in, pos0 + 1)
    IN IF peek(in, pos) = DOUBLE_QUOTE THEN parse_quoted_field_name(in, pos, path, TRUE)
       ELSE IF peek(in, pos) = NoByte THEN PErr("InvalidKeyStep", pos)
       ELSE parse_unquoted_field_name(in, pos, path, TRUE)

\* the while loop of parse, from position pos with the steps pushed so far
RECURSIVE parse_steps(_, _, _)
parse_steps(in, pos, path) ==
    LET k(r) == IF r.res # "Ok" THEN r
                ELSE parse_steps(in, eat_whitespaces(in, r.pos), r.path)
    IN IF exhausted(in, pos) THEN POk(pos, path)
       ELSE IF in[pos + 1] = BEGIN_ARRAY THEN k(parse_array_step(in, pos + 1, path))
       ELSE IF in[pos + 1] = DOT
       THEN IF peek(in, pos + 1) = DOT THEN k(parse_descendent_step(in, pos + 1, path))
            ELSE k(parse_object_step(in, pos + 1, path))
       ELSE PErr("InvalidCharacterAtStepStart", pos + 1)

\* PathParser::new(input).parse()
parse(in) ==
    LET pos == skip(in, 0, {SPACE})
    IN IF peek(in, pos) # ROOT THEN PErr("NotStartWithDollar", pop_pos(in, pos))
       ELSE parse_steps(in, skip(in, pos + 1, {SPACE}), <<Root>>)

\* --------------------------------------------------------------- SpecQuery
\* PathExpression::query and PathExpression::exists applied to documents the
\* builders produce.  The parser is not modelled: a path is the list of steps
\* it produces.
KeyA == <<97>>
KeyB == <<98>>
KeyAB == <<97, 98>>
StrX == <<120>>
Num12 == <<193, 13>>

Docs ==
    << TStr(StrX),
       TNull,
       TArr(<<>>),
       TArr(<<TBool(TRUE), TBool(FALSE), TNull, TArr(<<>>), TObj(<<Mem(KeyA, TNull)>>)>>),
       TArr(<<TStr(StrX), TNull>>),
       TObj(<<Mem(KeyAB, TNull), Mem(KeyB, TBool(TRUE)), Mem(KeyA, TStr(StrX))>>),
       TObj(<<Mem(KeyB, TObj(<<Mem(KeyA, TObj(<<Mem(KeyA, TNull)>>))>>)),
              Mem(KeyA, TArr(<<TObj(<<Mem(KeyA, TBool(TRUE))>>), TNull,
                               TObj(<<Mem(KeyB, TObj(<<Mem(KeyA, TBool(FALSE))>>))>>)>>))>>),
       TArr(<<TArr(<<TBool(TRUE), TBool(FALSE)>>), TArr(<<TNull>>), TObj(<<Mem(KeyA, TBool(TRUE))>>)>>),
       TArr(<<TObj(<<Mem(KeyA, TBool(TRUE))>>),
              TObj(<<Mem(KeyB, TNull), Mem(KeyA, TBool(FALSE))>>), TNum(Num12)>>),
       TObj(<<Mem(KeyA, TNum(Num12)), Mem(KeyB, TArr(<<TNum(Num12), TBool(TRUE)>>))>>),
       TBool(TRUE) >>

\* the endpoints of ranges and the cells of multi-cell steps: 0..MaxEndpoint
\* and last - 0..MaxEndpoint
MaxEndpoint == 3
Endpoints == [i \in 1..(2 * (MaxEndpoint + 1)) |->
                 IF i <= MaxEndpoint + 1 THEN Ix(i - 1) ELSE La(i - MaxEndpoint - 2)]
NEndpoints == Len(Endpoints)

\* the array steps: every index, last - k and range over the endpoints, the
\* wildcard, and multi-cell lists
SingleSteps == [i \in 1..NEndpoints |->
                   IF Endpoints[i].last THEN Last(Endpoints[i].n) ELSE Index(Endpoints[i].n)]
RangeSteps == [i \in 1..(NEndpoints * NEndpoints) |->
                  ArrayRange(Endpoints[((i - 1) \div NEndpoints) + 1], Endpoints[((i - 1) % NEndpoints) + 1])]
MultiSteps ==
    << Multiple(<<Single(Ix(0)), Single(Ix(0))>>),
       Multiple(<<Single(Ix(1)), Single(Ix(0))>>),
       Multiple(<<Range(Ix(0), Ix(1)), Single(Ix(1))>>),
       Multiple(<<Single(La(0)), Single(Ix(0)), Single(Ix(7))>>),
       Multiple(<<Range(La(1), La(0)), Range(Ix(2), Ix(0))>>),
       Multiple(<<Single(Ix(1)), Single(Ix(2))>>) >>
ArraySteps == SingleSteps \o RangeSteps \o MultiSteps \o <<ArrayWildcard>>

\* what may follow an array step
Rests ==
    << <<>>, <<Key(KeyA)>>, <<Index(0)>>, <<ArrayWildcard, Key(KeyA)>>, <<Last(1)>>,
       <<Multiple(<<Single(Ix(0)), Single(La(0))>>)>> >>

ArrayPaths == [i \in 1..(Len(ArraySteps) * Len(Rests)) |->
                  <<Root, ArraySteps[((i - 1) \div Len(Rests)) + 1]>> \o Rests[((i - 1) % Len(Rests)) + 1]]

OtherPaths ==
    << <<Root>>,
       <<Root, Key(KeyA)>>, <<Root, Key(KeyB)>>, <<Root, Key(KeyAB)>>,
       <<Root, ObjectWildcard>>, <<Root, ObjectWildcard, Key(KeyA)>>,
       <<Root, ObjectWildcard, ObjectWildcard>>,
       <<Root, Key(KeyA), Key(KeyA)>>, <<Root, Key(KeyB), Key(KeyA)>>,
       <<Root, Key(KeyA), Index(0)>>, <<Root, Key(KeyA), ArrayWildcard>>,
       <<Root, Key(KeyB), Index(0)>>, <<Root, Key(KeyB), Index(1)>>,
       <<Root, Key(KeyA), Index(0), Key(KeyA)>>,
       <<Root, Key(KeyA), Multiple(<<Single(La(0)), Single(Ix(0)), Single(La(0))>>)>>,
       <<Root, Descendent(KeyA)>>, <<Root, Descendent(KeyB)>>, <<Root, Descendent(KeyAB)>>,
       <<Root, Key(KeyA), Descendent(KeyA)>>, <<Root, Key(KeyB), Descendent(KeyA)>>,
       <<Root, Descendent(KeyA), Key(KeyA)>>, <<Root, Descendent(KeyB), Descendent(KeyA)>>,
       <<Root, ArrayWildcard, Descendent(KeyA)>>,
       <<Root, Func("count")>>, <<Root, Func("size")>>, <<Root, Func("type")>>,
       <<Root, Key(KeyA), Func("count")>>, <<Root, Key(KeyAB), Func("count")>>,
       <<Root, ArrayWildcard, Func("count")>>, <<Root, ObjectWildcard, Func("count")>>,
       <<Root, Descendent(KeyA), Func("count")>>, <<Root, Descendent(KeyAB), Func("count")>>,
       <<Root, Index(1), Func("count")>>,
       <<Root, ArrayRange(Ix(0), La(0)), Func("count")>>,
       <<Root, Multiple(<<Single(Ix(0)), Single(Ix(0))>>), Func("count")>>,
       <<Root, Key(KeyA), Func("size")>>, <<Root, ArrayWildcard, Func("type")>> >>

Paths == OtherPaths \o ArrayPaths

InitQuery ==
    /\ bytes = <<>>
    /\ stack = <<>>
    /\ phase = "init"
    /\ garbage = 0
    /\ debug \in BOOLEAN
    /\ last = NoCall
    /\ log = <<>>
    /\ npush = 0

\* the caller builds the i-th document; log records which
BuildDocument(i) ==
    /\ phase = "init"
    /\ bytes' = Encode(Docs[i])
    /\ phase' = "built"
    /\ log' = <<i>>
    /\ UNCHANGED <<stack, garbage, debug, last, npush>>

QueryCall(op, path, with_wrapper, out) ==
    [op |-> op, path |-> path, with_wrapper |-> with_wrapper, out |-> out]

\* PathExpression::query(&yason, with_wrapper, None, None) for the p-th path
Query(p, with_wrapper) ==
    /\ phase = "built"
    /\ phase' = "called"
    /\ last' = QueryCall("query", p, with_wrapper, PathExpression_query(Paths[p], bytes, with_wrapper, debug))
    /\ UNCHANGED <<bytes, stack, garbage, debug, log, npush>>

\* PathExpression::exists(&yason) for the p-th path
Exists(p) ==
    /\ phase = "built"
    /\ phase' = "called"
    /\ last' = QueryCall("exists", p, TRUE, PathExpression_exists(Paths[p], bytes, debug))
    /\ UNCHANGED <<bytes, stack, garbage, debug, log, npush>>

\* the documents a built document is compared with: the documents themselves,
\* objects with the same members pushed in another order, and values of the
\* same kind and encoded length that differ in one payload, key or element
StrY == <<121>>
Num34 == <<193, 35>>

Others ==
    Docs \o
    << TObj(<<Mem(KeyA, TStr(StrX)), Mem(KeyAB, TNull), Mem(KeyB, TBool(TRUE))>>),
       TObj(<<Mem(KeyA, TArr(<<TObj(<<Mem(KeyA, TBool(TRUE))>>), TNull,
                               TObj(<<Mem(KeyB, TObj(<<Mem(KeyA, TBool(FALSE))>>))>>)>>)),
              Mem(KeyB, TObj(<<Mem(KeyA, TObj(<<Mem(KeyA, TNull)>>))>>))>>),
       TObj(<<Mem(KeyB, TArr(<<TNum(Num12), TBool(TRUE)>>)), Mem(KeyA, TNum(Num12))>>),
       TArr(<<TObj(<<Mem(KeyA, TBool(TRUE))>>),
              TObj(<<Mem(KeyA, TBool(FALSE)), Mem(KeyB, TNull)>>), TNum(Num12)>>),
       TStr(StrY),
       TNum(Num12),
       TNum(Num34),
       TBool(FALSE),
       TArr(<<TNull, TStr(StrX)>>),
       TArr(<<TStr(StrY), TNull>>),
       TArr(<<TBool(TRUE), TBool(TRUE), TNull, TArr(<<>>), TObj(<<Mem(KeyA, TNull)>>)>>),
       TArr(<<TBool(TRUE), TBool(FALSE), TNull, TArr(<<>>), TObj(<<Mem(KeyB, TNull)>>)>>),
       TArr(<<TArr(<<TBool(TRUE), TBool(FALSE)>>), TArr(<<TNull>>), TArr(<<TBool(TRUE)>>)>>),
       TObj(<<Mem(KeyAB, TNull), Mem(KeyB, TBool(FALSE)), Mem(KeyA, TStr(StrX))>>),
       TObj(<<Mem(KeyAB, TNull), Mem(KeyB, TBool(TRUE)), Mem(KeyA, TStr(StrY))>>),
       TObj(<<Mem(KeyA, TNum(Num34)), Mem(KeyB, TArr(<<TNum(Num12), TBool(TRUE)>>))>>),
       TObj(<<>>) >>

\* Yason::equals(&yason, &other) for the j-th other document
Equals(j) ==
    /\ phase = "built"
    /\ phase' = "called"
    /\ last' = QueryCall("equals", j, FALSE, Yason_equals(bytes, Encode(Others[j]), debug))
    /\ UNCHANGED <<bytes, stack, garbage, debug, log, npush>>

NextQuery ==
    \/ \E i \in 1..Len(Docs) : BuildDocument(i)
    \/ \E p \in 1..Len(Paths), with_wrapper \in BOOLEAN : Query(p, with_wrapper)
    \/ \E p \in 1..Len(Paths) : Exists(p)
    \/ \E j \in 1..Len(Others) : Equals(j)

SpecQuery == InitQuery /\ [][NextQuery]_vars

\* -------------------------------------------------------------- SpecResult
\* PathExpression::query given a query buffer and a result buffer.

\* path::values_to_yason: ArrayRefBuilder::try_new over the cleared result
\* buffer, one push per value (push_object_or_array copies the slice of a
\* container after its value-entry), finish
values_to_yason(values) ==
    LET n == Len(values)
        start == DATA_TYPE_SIZE + ARRAY_SIZE
        arg(v) == IF v.dt = T_Bool THEN v.val = <<1>> ELSE IF IsContainer(v.dt) THEN 0 ELSE v.val
        copied(o, v) == IF o.res = "Ok" /\ IsContainer(v.dt) THEN [o EXCEPT !.bytes = @ \o v.val] ELSE o
        RECURSIVE Each(_, _)
        Each(o, i) ==
            IF o.res # "Ok" THEN Queried(o.res, <<>>)
            ELSE IF i > n THEN Queried("Yason", [j \in 1..Len(o.bytes) |-> Byte(SealBytes(o.bytes, o.b)[j])])
            ELSE Each(copied(ArrPushValue(o.bytes, o.b, o.b.snap, values[i].dt, arg(values[i])),
                             values[i]), i + 1)
    IN  Each(Out("Ok", ArrayHeader(n, 0), MkBuilder("array", n, FALSE, 0, start, 0, 1, 0)), 1)

\* PathExpression::query: after the selection, the buffers decide the shape
\* of a wrapped, non-empty result
PathExpression_query_buffers(steps, d, with_wrapper, query_buf, result_buf, dbg) ==
    LET shaped(q) ==
            IF q.res # "Values" THEN q
            ELSE IF result_buf THEN values_to_yason(q.vals)
            ELSE IF query_buf THEN Queried("ValuesRef", q.vals)
            ELSE q
    IN  shaped(PathExpression_query(steps, d, with_wrapper, dbg))

\* PathExpression::query(&yason, with_wrapper, query_buf, result_buf) for the
\* p-th path, each buffer given or not
QueryInto(p, with_wrapper, query_buf, result_buf) ==
    /\ phase = "built"
    /\ phase' = "called"
    /\ last' = [op |-> "query", path |-> p, with_wrapper |-> with_wrapper,
                query_buf |-> query_buf, result_buf |-> result_buf,
                out |-> PathExpression_query_buffers(OtherPaths[p], bytes, with_wrapper,
                                                     query_buf, result_buf, debug)]
    /\ UNCHANGED <<bytes, stack, garbage, debug, log, npush>>

NextResult ==
    \/ \E i \in 1..Len(Docs) : BuildDocument(i)
    \/ \E p \in 1..Len(OtherPaths), with_wrapper, query_buf, result_buf \in BOOLEAN :
          QueryInto(p, with_wrapper, query_buf, result_buf)

SpecResult == InitQuery /\ [][NextResult]_vars

\* --------------------------------------------------------------- SpecFormat
\* Formatting of documents as deep as the builders allow, and of the results
\* of queries on them.  The formatter's recursion (write_lazy_value ->
\* write_array / write_object -> write_*_value -> write_lazy_value) is run
\* one container event at a time: stack holds one frame per container the
\* formatter is inside of, last holds the formatter (cur_indent_level,
\* has_value), how it ended, the largest indentation asked for and the
\* number of bytes written.

\* One more container around an encoded container: the parent's try_new(1),
\* its push of the nested container, the nested container's bytes, finish.
WrapChain(kind, child) ==
    LET b == MkBuilder(kind, 1, FALSE, 0, DATA_TYPE_SIZE + ARRAY_SIZE, 0, 1, 0)
        sealed(o) == SealBytes(o.bytes \o child, o.b)
        bytes_of(s) == [i \in 1..Len(s) |-> Byte(s[i])]
    IN  IF kind = "array"
        THEN bytes_of(sealed(ArrPushValue(ArrayHeader(1, 0), b, 0, T_Array, 0)))
        ELSE bytes_of(sealed(ObjPushKeyValue(ObjectHeader(1, 0), b, 0, DeepKey, 0, T_Object, 0)))

\* The innermost container of a chain of nested arrays, or of objects under
\* the key "key": it holds the elements (members) of leaf.
ChainLeaf(kind, leaf) ==
    IF kind = "array" THEN Encode(TArr(leaf))
    ELSE Encode(TObj([i \in 1..Len(leaf) |-> Mem(DeepKey, leaf[i])]))

\* the chains that are formatted and queried: the shallow ones and the
\* deepest
MaxShallow == 2
ChainDepths == (1..MaxShallow) \cup {MAX_NESTED_DEPTH}
ChainLeaves == { <<>>, <<TNull>> }
ChainPaths == << <<Root>>, <<Root, ArrayWildcard>> >>

\* the formatter between two events
Formatter(of, pretty, src, w, len, formatted) ==
    [op |-> "format", of |-> of, pretty |-> pretty, src |-> src, res |-> w.res,
     level |-> w.level, has_value |-> w.has_value, ind |-> w.ind,
     len |-> len + Len(w.out), formatted |-> formatted]
WriterOf(f) ==
    [res |-> "Ok", out |-> <<>>, level |-> f.level, has_value |-> f.has_value, ind |-> f.ind]

\* a container being written: its kind ("array", "object", or "values" for
\* the array write_values puts around the values), the value it lies in, its bounds there and the
\* index of its next element
Frame(kind, buf, from, to, i) == [kind |-> kind, buf |-> buf, from |-> from, to |-> to, i |-> i]

\* LazyValue::object / LazyValue::array: the bounds of the slice in lv.y
LazyValue_container_bounds(lv, dbg) ==
    LET field == lv.pos + DATA_TYPE_SIZE
    IN  IF ~lv.in_array THEN ReadContainer(lv.y, lv.pos, lv.ty, dbg)
        ELSE IF ~SliceOk(lv.y, field, field + 4) THEN OutOfBounds(Len(lv.y), field + 4)
        ELSE ReadContainer(lv.y, RdU32(lv.y, field) + DATA_TYPE_SIZE + ARRAY_SIZE, lv.ty, dbg)

\* Formatter::write_lazy_value up to the first element of a container: a
\* scalar is written; for a container begin_array / begin_object is called
\* and a frame is entered.  lv.y lies at base in the value buf.
write_lazy_value_begin(pretty, w, lv, buf, base, dbg) ==
    LET inside(r) ==
            IF r.res # "Ok" THEN [w |-> Fail(w, r.res), frames |-> <<>>]
            ELSE IF ~SliceOk(lv.y, r.val[1] + DATA_TYPE_SIZE + ARRAY_SIZE,
                             r.val[1] + DATA_TYPE_SIZE + ARRAY_SIZE + ELEMENT_COUNT_SIZE)
            THEN [w |-> Fail(begin_container(pretty, w, IF lv.ty = T_Object THEN 123 ELSE 91),
                             "IndexOutOfBounds"),
                  frames |-> <<>>]
            ELSE [w |-> begin_container(pretty, w, IF lv.ty = T_Object THEN 123 ELSE 91),
                  frames |-> <<Frame(IF lv.ty = T_Object THEN "object" ELSE "array",
                                     buf, base + r.val[1], base + r.val[2], 0)>>]
    IN  IF w.res # "Ok" THEN [w |-> w, frames |-> <<>>]
        ELSE IF IsContainer(lv.ty) THEN inside(LazyValue_container_bounds(lv, dbg))
        ELSE [w |-> write_lazy_value(pretty, w, lv, dbg), frames |-> <<>>]

\* the next event of the container of the innermost frame fr, in the slice y:
\* write_array_value / write_object_value of its next element, or end_array
\* / end_object and the end_*_value of the container it is an element of
NextEvent(pretty, w, frames, fr, y, src, dbg) ==
    LET rest == SubSeq(frames, 1, Len(frames) - 1)
        first == fr.i = 0
        step(e) ==
            IF e.frames = <<>>
            THEN [w |-> end_value(pretty, e.w), frames |-> Append(rest, [fr EXCEPT !.i = @ + 1])]
            ELSE [w |-> e.w, frames |-> Append(rest, [fr EXCEPT !.i = @ + 1]) \o e.frames]
        failed(res) == [w |-> Fail(w, res), frames |-> frames]
        element(e) ==
            IF e.res # "Ok" THEN failed(e.res)
            ELSE step(write_lazy_value_begin(pretty, begin_value(pretty, w, first), e.lv,
                                             fr.buf, fr.from, dbg))
        keyed(e, t) ==
            LET w2 == Put(write_string(begin_value(pretty, w, first), e.key),
                          IF pretty THEN <<32, 58, 32>> ELSE <<58>>)
            IN  IF t.res # "Ok" THEN failed(t.res)
                ELSE step(write_lazy_value_begin(
                              pretty,
                              IF pretty /\ IsContainer(t.dt) THEN indent(Put(w2, <<10>>)) ELSE w2,
                              LazyValue(y, t.dt, e.pos, FALSE), fr.buf, fr.from, dbg))
        member(e) == IF e.res # "Ok" THEN failed(e.res) ELSE keyed(e, Yason_read_type(y, e.pos))
        value(v) ==
            LET w1 == begin_value(pretty, w, first)
                k(l) == IF l.res # "Ok" THEN [w |-> Fail(w1, l.res), frames |-> <<>>]
                        ELSE write_lazy_value_begin(pretty, w1, l.lv, fr.i + 1, 0, dbg)
            IN  IF IsContainer(v.dt) THEN step(k(LazyValue_try_from(v.val)))
                ELSE IF v.dt = T_String THEN step([w |-> write_string(w1, v.val), frames |-> <<>>])
                ELSE IF v.dt = T_Number THEN step([w |-> write_number(w1, v.val), frames |-> <<>>])
                ELSE IF v.dt = T_Bool THEN step([w |-> write_bool(w1, v.val), frames |-> <<>>])
                ELSE step([w |-> write_null(w1), frames |-> <<>>])
        ended(w1) == [w |-> IF rest = <<>> THEN w1 ELSE end_value(pretty, w1), frames |-> rest]
    IN  IF fr.kind = "values"
        THEN IF fr.i < Len(src) THEN value(src[fr.i + 1])
             ELSE ended(end_container(pretty, w, 93))
        ELSE IF fr.i < ReadLen(y)
        THEN IF fr.kind = "object" THEN member(Object_read_nth_key_and_value_pos(y, fr.i))
             ELSE element(Array_lazy_get_unchecked(y, fr.i))
        ELSE ended(end_container(pretty, w, IF fr.kind = "object" THEN 125 ELSE 93))

\* the formatter has returned when no container is open or a step failed
Proceed(of, pretty, src, e, len) ==
    /\ last' = Formatter(of, pretty, src, e.w, len, e.frames = <<>> \/ e.w.res # "Ok")
    /\ stack' = IF e.w.res # "Ok" THEN <<>> ELSE e.frames
    /\ phase' = IF e.frames = <<>> \/ e.w.res # "Ok" THEN "formatted" ELSE "formatting"

InitFormat ==
    /\ bytes = <<>>
    /\ stack = <<>>
    /\ phase = "init"
    /\ garbage = 0
    /\ debug \in BOOLEAN
    /\ last = NoCall
    /\ log = <<>>
    /\ npush = 0

\* the caller builds the innermost container of a chain; log records the
\* chain
BuildChain(kind, leaf) ==
    /\ phase = "init"
    /\ bytes' = ChainLeaf(kind, leaf)
    /\ phase' = "built"
    /\ log' = <<[kind |-> kind, depth |-> 1, leaf |-> leaf]>>
    /\ UNCHANGED <<stack, garbage, debug, last, npush>>

\* the caller builds the chain one container deeper, as deep as the builders
\* allow
DeepenChain ==
    /\ phase = "built"
    /\ log[1].depth < MAX_NESTED_DEPTH
    /\ bytes' = WrapChain(log[1].kind, bytes)
    /\ log' = <<[log[1] EXCEPT !.depth = @ + 1]>>
    /\ UNCHANGED <<stack, phase, garbage, debug, last, npush>>

\* Formatter::format: LazyValue::try_from(yason), write_lazy_value
format(of, pretty, d) ==
    LET k(l) == IF l.res # "Ok" THEN [w |-> Fail(Writer, l.res), frames |-> <<>>]
                ELSE write_lazy_value_begin(pretty, Writer, l.lv, 1, 0, debug)
    IN  Proceed(of, pretty, <<Value(0, d)>>, k(LazyValue_try_from(d)), 0)

\* yason.format_to(pretty, &mut buf)
FormatDocument(pretty) ==
    /\ phase = "built"
    /\ log[1].depth \in ChainDepths
    /\ format("Document", pretty, bytes)
    /\ UNCHANGED <<bytes, garbage, debug, log, npush>>

\* path.query(&yason, with_wrapper, query_buf, result_buf)
QueryChain(p, with_wrapper, query_buf, result_buf) ==
    /\ phase = "built"
    /\ log[1].depth \in ChainDepths
    /\ phase' = "called"
    /\ last' = [op |-> "query", path |-> p, with_wrapper |-> with_wrapper,
                query_buf |-> query_buf, result_buf |-> result_buf,
                out |-> PathExpression_query_buffers(ChainPaths[p], bytes, with_wrapper,
                                                     query_buf, result_buf, debug)]
    /\ UNCHANGED <<bytes, stack, garbage, debug, log, npush>>

\* QueriedValue::format_to: nothing for None; Value::format_to (a scalar
\* through a CompactFormatter); values_format_to, which writes nothing for
\* no values and else calls write_values; Yason::format_to
FormatQueried(pretty) ==
    /\ phase = "called"
    /\ last.op = "query"
    /\ last.out.res \in {"None", "Value", "Values", "ValuesRef", "Yason"}
    /\ LET q == last.out
           done(w) == Proceed(q.res, pretty, q.vals, [w |-> w, frames |-> <<>>], 0)
           scalar(v) ==
               IF v.dt = T_String THEN done(write_string(Writer, v.val))
               ELSE IF v.dt = T_Number THEN done(write_number(Writer, v.val))
               ELSE IF v.dt = T_Bool THEN done(write_bool(Writer, v.val))
               ELSE done(write_null(Writer))
       IN  IF q.res = "None" THEN done(Writer)
           ELSE IF q.res = "Yason" THEN format(q.res, pretty, q.vals)
           ELSE IF q.res = "Value"
           THEN IF IsContainer(q.vals[1].dt) THEN format(q.res, pretty, q.vals[1].val)
                ELSE scalar(q.vals[1])
           ELSE IF q.vals = <<>> THEN done(Writer)
           ELSE Proceed(q.res, pretty, q.vals,
                        [w |-> begin_container(pretty, Writer, 91),
                         frames |-> <<Frame("values", 0, 0, 0, 0)>>], 0)
    /\ UNCHANGED <<bytes, garbage, debug, log, npush>>

\* the formatter goes on to the next element or to the end of the innermost
\* container it is in
FormatNext ==
    /\ phase = "formatting"
    /\ LET fr == stack[Len(stack)]
           y == IF fr.kind = "values" THEN <<>> ELSE SliceOf(last.src[fr.buf].val, fr.from, fr.to)
       IN  Proceed(last.of, last.pretty, last.src,
                   NextEvent(last.pretty, WriterOf(last), stack, fr, y, last.src, debug),
                   last.len)
    /\ UNCHANGED <<bytes, garbage, debug, log, npush>>

NextFormat ==
    \/ \E kind \in {"array", "object"}, leaf \in ChainLeaves : BuildChain(kind, leaf)
    \/ DeepenChain
    \/ \E pretty \in BOOLEAN : FormatDocument(pretty)
    \/ \E p \in 1..Len(ChainPaths), with_wrapper, query_buf, result_buf \in BOOLEAN :
          QueryChain(p, with_wrapper, query_buf, result_buf)
    \/ \E pretty \in BOOLEAN : FormatQueried(pretty)
    \/ FormatNext

SpecFormat == InitFormat /\ [][NextFormat]_vars

\* ---------------------------------------------------------------- SpecParse
\* beginnings of a path: nothing, `$`, ` $ [0 to last - 1, 2]`, `$..a[*]`,
\* `$."a\n".*`
PathPrefixes == {
    <<>>,
    <<36>>,
    <<32, 36, 32, 91, 48, 32, 116, 111, 32, 108, 97, 115, 116, 32, 45, 32, 49, 44, 32, 50, 93>>,
    <<36, 46, 46, 97, 91, 42, 93>>,
    <<36, 46, 34, 97, 92, 110, 34, 46, 42>> }

\* what follows: `.size`, `.abs`, `(`, `)`, a space, `.a`, `$`
PathTokens == <<
    <<46, 115, 105, 122, 101>>,
    <<46, 97, 98, 115>>,
    <<40>>,
    <<41>>,
    <<32>>,
    <<46, 97>>,
    <<36>> >>

MaxTokens == 4

RECURSIVE JoinTokens(_)
JoinTokens(ts) ==
    IF ts = <<>> THEN <<>> ELSE PathTokens[Head(ts)] \o JoinTokens(Tail(ts))

PathInputs ==
    { pre \o JoinTokens(ts) :
        pre \in PathPrefixes,
        ts \in UNION { [1..n -> 1..Len(PathTokens)] : n \in 0..MaxTokens } }

InitParse ==
    /\ bytes \in PathInputs
    /\ stack = <<>>
    /\ phase = "built"
    /\ garbage = 0
    /\ debug = FALSE
    /\ last = NoCall
    /\ log = <<>>
    /\ npush = 0

\* str::parse::<PathExpression>() / PathParser::new(input).parse()
Parse ==
    /\ phase = "built"
    /\ phase' = "called"
    /\ last' = [op |-> "parse", out |-> parse(bytes)]
    /\ UNCHANGED <<bytes, stack, garbage, debug, log, npush>>

NextParse == Parse

SpecParse == InitParse /\ [][NextParse]_vars

\* ---------------------------------------------------------------- SpecRead
\* The readers applied to byte buffers no builder produced.  A YasonBuf is
\* made from any bytes by Deserialize::visit_bytes (YasonBuf::new_unchecked).

\* Yason::object, Yason::array, Yason::string, Yason::number, Yason::bool:
\* check_type(0, expected), then the unchecked reader.  Object::new_unchecked
\* and Array::new_unchecked debug_assert that the header is complete.
Yason_typed(d, expected, dbg) ==
    LET t == Yason_read_type(d, 0) IN
    IF t.res # "Ok" THEN t
    ELSE IF t.dt # expected THEN Val("UnexpectedType", 0, <<expected, t.dt>>)
    ELSE IF expected = T_String THEN Yason_read_string(d, 0, dbg)
    ELSE IF expected = T_Number THEN Yason_read_number(d, 0)
    ELSE IF expected = T_Bool THEN Yason_read_bool(d, 0)
    ELSE IF dbg /\ Len(d) < DATA_TYPE_SIZE + OBJECT_SIZE + ELEMENT_COUNT_SIZE THEN ReadPanic
    ELSE Val("Ok", expected, <<0, Len(d)>>)

\* PartialEq::eq: equals(other).expect(..)
Yason_eq(a, b, dbg) ==
    LET k(res) == IF res \in {"true", "false"} THEN Val("Ok", T_Bool, <<res>>) ELSE ReadPanic
    IN  k(Yason_equals(a, b, dbg))

\* buffers with one defect each: a bare tag, an invalid tag, a string whose
\* length has the continuation bit in all four bytes (at the top and as a
\* member of an object), a negative and an oversized container size, a table
\* entry that points past the end, a declared count without its table
Malformed ==
    << <<T_String>>, <<T_Array>>, <<T_Object>>, <<T_Number>>, <<T_Bool>>, <<9>>,
       <<T_String, 128, 128, 128, 128>>,
       <<T_String, 128, 128, 128, 1, 120>>,
       <<T_String, 5, 120>>,
       <<T_Number, 9, 193>>,
       <<T_Array, 255, 255, 255, 255, 0, 0>>,
       <<T_Array, 7, 0, 0, 0, 1, 0, T_Array, 7, 0, 0, 0>>,
       <<T_Array, 14, 0, 0, 0, 1, 0, T_Array, 7, 0, 0, 0, T_Array, 254, 255, 255, 255, 0, 0>>,
       <<T_Array, 9, 0, 0, 0, 1, 0, T_Array, 7, 0, 0, 0, T_Array, 0>>,
       <<T_Array, 12, 0, 0, 0, 1, 0, T_String, 7, 0, 0, 0, T_String, 128, 128, 128, 128>>,
       <<T_Array, 7, 0, 0, 0, 1, 0, 9, 0, 0, 0, 0>>,
       <<T_Array, 2, 0, 0, 0, 2, 0>>,
       <<T_Object, 14, 0, 0, 0, 1, 0, 6, 0, 0, 0, 1, 0, 98, T_String, 128, 128, 128, 128>>,
       <<T_Object, 6, 0, 0, 0, 1, 0, 99, 0, 0, 0>>,
       <<T_Object, 9, 0, 0, 0, 1, 0, 6, 0, 0, 0, 9, 0, 98>>,
       <<T_Object, 100, 0, 0, 0, 0, 0>> >>

\* the buffers read: the malformed ones and every non-empty prefix of the
\* encoding of a document
Buffers ==
    {Malformed[i] : i \in 1..Len(Malformed)}
    \cup UNION {{SubSeq(Encode(Docs[i]), 1, n) : n \in 1..Len(Encode(Docs[i]))} : i \in 1..Len(Docs)}

MaxIndex == 1

InitRead ==
    /\ bytes \in Buffers
    /\ stack = <<>>
    /\ phase = "built"
    /\ garbage = 0
    /\ debug \in BOOLEAN
    /\ last = NoCall
    /\ log = <<>>
    /\ npush = 0

ReadCall(op, arg, out) == [op |-> op, arg |-> arg, out |-> out]

Read(op, arg, out) ==
    /\ phase = "built"
    /\ phase' = "called"
    /\ last' = ReadCall(op, arg, out)
    /\ UNCHANGED <<bytes, stack, garbage, debug, log, npush>>

\* yason.string(), .number(), .bool(), .object(), .array()
ReadTyped(expected) == Read("typed", expected, Yason_typed(bytes, expected, debug))

\* yason.array()?.get(index)
ReadElement(index) ==
    LET k(a) == IF a.res # "Ok" THEN a ELSE Array_get(bytes, index, debug)
    IN  Read("element", index, k(Yason_typed(bytes, T_Array, debug)))

\* yason.object()?.get(key)
ReadMember(key) ==
    LET k(o) == IF o.res # "Ok" THEN o ELSE Object_get(bytes, key, debug)
    IN  Read("member", key, k(Yason_typed(bytes, T_Object, debug)))

\* yason == yason.clone()
Compare == Read("eq", 0, Yason_eq(bytes, bytes, debug))

NextRead ==
    \/ \E expected \in T_Object..T_Bool : ReadTyped(expected)
    \/ \E index \in 0..MaxIndex : ReadElement(index)
    \/ \E key \in {KeyA, KeyB} : ReadMember(key)
    \/ Compare

SpecRead == InitRead /\ [][NextRead]_vars

\* ================================================================= claims
IsCall == last.op \in {"push", "finish"}

\* C1: a push_* or finish call returns InnerUncompleted if and only if a
\* builder nested in the called one, directly or transitively, was created
\* and has not finished successfully.
C1_InnerUncompletedIffOpenDescendant ==
    IsCall => ((last.res = "InnerUncompleted") <=> last.unfin)

\* C2: finish on a builder with nothing open inside it returns
\* InconsistentElementCount{expected: the declared count, actual: the number
\* of elements pushed} whenever the two differ, and seals only when they are
\* equal.  (last.expected and last.actual are element_count and value_count
\* at the call, which are the fields of the error; last.okpushes is the
\* number of pushes on the builder that returned Ok.)
C2_FinishComparesDeclaredWithPushed ==
    (last.op = "finish" /\ ~last.unfin) =>
        /\ last.okpushes # last.expected =>
              (last.res = "InconsistentElementCount" /\ last.actual = last.okpushes)
        /\ last.res = "Ok" => last.okpushes = last.expected

\* the builder the last call was made on (it stays in the chain after a push)
Called == stack[last.level]

\* the first n slots of the key-offset table of builder b lie in the buffer
SlotsIn(b, n) == b.start_pos + ELEMENT_COUNT_SIZE + n * KEY_OFFSET_SIZE <= Len(bytes)

\* the keys the first n slots of the table of b designate are k(0) <= k(1) <= ...
SortedSlots(s, start_pos, n) ==
    /\ \A i \in 0..(n - 1) : TableKey(s, start_pos, i).ok
    /\ \A i \in 0..(n - 2) :
          cmp_key(TableKey(s, start_pos, i).key, TableKey(s, start_pos, i + 1).key) <= 0

\* the first n slots designate exactly the keys of the elements in pushed,
\* each as many times as it was pushed
SlotsList(s, start_pos, n, pushed) ==
    /\ n = Len(pushed)
    /\ \A k \in KeysWide \cup {DeepKey} :
          Cardinality({ i \in 0..(n - 1) : TableKey(s, start_pos, i) = [ok |-> TRUE, key |-> k] })
              = Cardinality({ j \in 1..Len(pushed) : pushed[j].key = k })

\* C3: in unsorted mode, after every push that returned Ok, the filled
\* prefix of the key-offset table lists the keys pushed so far, in
\* non-decreasing order of (length, bytes).
C3_UnsortedTableSortedAfterEveryPush ==
    (last.op = "push" /\ last.res = "Ok" /\ last.kind = "object" /\ ~Called.key_sorted) =>
        /\ SlotsIn(Called, Called.value_count)
        /\ SortedSlots(bytes, Called.start_pos, Called.value_count)
        /\ SlotsList(bytes, Called.start_pos, Called.value_count, Called.pushed)

\* the container the last call sealed, and the document a reader is given
JustSealed == last.op = "finish" /\ last.res = "Ok"
SealedLast == log[Len(log)]
DocOf(e) == SubSeq(bytes, e.init + 1, e.end)

\* where the container begun at position at was sealed to end; -1 if it
\* never was
SealedEnd(at) ==
    IF \E i \in 1..Len(log) : log[i].init = at
    THEN (CHOOSE e \in { log[i] : i \in 1..Len(log) } : e.init = at).end
    ELSE -1

\* what a read of element el of the sealed container e has to return: the
\* kind pushed and its payload
Pushed(el, e) ==
    IF el.dt = T_String \/ el.dt = T_Number THEN Val("Ok", el.dt, el.val)
    ELSE IF el.dt = T_Bool THEN Val("Ok", T_Bool, <<IF el.val THEN 1 ELSE 0>>)
    ELSE IF el.dt = T_Null THEN Val("Ok", T_Null, <<>>)
    ELSE Val("Ok", el.dt, <<el.val - e.init, SealedEnd(el.val) - e.init>>)

DistinctKeys(pushed) ==
    \A i, j \in 1..Len(pushed) : pushed[i].key = pushed[j].key => i = j

\* C4: an object built in unsorted mode from distinct keys and sealed: the
\* lookup of each pushed key returns the kind and payload pushed under it,
\* the lookup of a key that was not pushed returns Ok(None).
C4_ObjectRoundTrip ==
    (JustSealed /\ last.kind = "object" /\ ~SealedLast.key_sorted
       /\ DistinctKeys(SealedLast.pushed)) =>
        LET e == SealedLast
            o == DocOf(e)
        IN  /\ \A j \in 1..Len(e.pushed) :
                  Object_get(o, e.pushed[j].key, debug) = Pushed(e.pushed[j], e)
            /\ \A k \in KeysWide :
                  (\A j \in 1..Len(e.pushed) : e.pushed[j].key # k) =>
                      Object_get(o, k, debug) = Val("None", 0, <<>>)

\* ArrayIter: read_value(0), read_value(1), ... up to the length read at
\* try_new
Array_iter(a, dbg) ==
    IF ~LenOk(a) THEN << OutOfBounds(Len(a), DATA_TYPE_SIZE + ARRAY_SIZE + ELEMENT_COUNT_SIZE) >>
    ELSE [i \in 1..ReadLen(a) |-> Array_read_value(a, i - 1, dbg)]

\* C5: an array sealed after the pushes v_0 .. v_{n-1}: get(i) returns the
\* kind and payload of v_i for i < n, iteration yields them in push order,
\* get(i) for i >= n returns IndexOutOfBounds{len: n, index: i}.
C5_ArrayRoundTrip ==
    (JustSealed /\ last.kind = "array") =>
        LET e == SealedLast
            a == DocOf(e)
            n == Len(e.pushed)
        IN  /\ \A i \in 0..(n - 1) : Array_get(a, i, debug) = Pushed(e.pushed[i + 1], e)
            /\ Array_iter(a, debug) = [i \in 1..n |-> Pushed(e.pushed[i], e)]
            /\ \A i \in n..(n + 1) : Array_get(a, i, debug) = OutOfBounds(n, i)

\* a push of a nested container on a builder that has nothing open inside
\* it and has not yet been given the elements it was declared with;
\* last.level is the number of containers open on the chain at the call
NestingPush(kind, dt) ==
    /\ last.op = "push" /\ last.kind = kind /\ last.dt = dt
    /\ ~last.unfin /\ last.actual < last.expected

C7_ObjectNestingBounded ==
    NestingPush("object", T_Object) =>
        last.res = (IF last.level < MAX_NESTED_DEPTH THEN "Ok" ELSE "NestedTooDeeply")

TagOf(kind) == IF kind = "object" THEN T_Object ELSE T_Array

KeyOffsetAt(d, i) ==
    RdU32(d, DATA_TYPE_SIZE + OBJECT_SIZE + ELEMENT_COUNT_SIZE + i * KEY_OFFSET_SIZE)
EntryOffsetAt(d, i) ==
    RdU32(d, DATA_TYPE_SIZE + ARRAY_SIZE + ELEMENT_COUNT_SIZE + i * VALUE_ENTRY_SIZE + DATA_TYPE_SIZE)
EntryTypeAt(d, i) ==
    Byte(d[DATA_TYPE_SIZE + ARRAY_SIZE + ELEMENT_COUNT_SIZE + i * VALUE_ENTRY_SIZE + 1])
Outlined(dt) == dt \in {T_Object, T_Array, T_String, T_Number}

\* C9: in a sealed container every stored offset - each key-offset of an
\* object, each value-entry of an outlined kind of an array - is smaller
\* than the size field and, counted from the byte after the size field, is
\* the position of the first byte the corresponding push appended.
C9_OffsetsDesignatePushes ==
    JustSealed =>
        LET e == SealedLast
            d == DocOf(e)
            n == e.element_count
            size == e.end - e.start
            base == DATA_TYPE_SIZE + OBJECT_SIZE
        IN  IF e.kind = "object"
            THEN /\ \A i \in 0..(n - 1) : KeyOffsetAt(d, i) < size
                 /\ \A p \in 0..size :
                       Cardinality({ i \in 0..(n - 1) : KeyOffsetAt(d, i) = p })
                         = Cardinality({ j \in 1..Len(e.pushed) : e.pushed[j].at - e.start = p })
            ELSE \A i \in 0..(n - 1) :
                    Outlined(EntryTypeAt(d, i)) =>
                        /\ EntryOffsetAt(d, i) < size
                        /\ i < Len(e.pushed)
                        /\ EntryOffsetAt(d, i) = e.pushed[i + 1].at - e.start

SealedTableSorted == SortedSlots(bytes, SealedLast.start, SealedLast.element_count)

\* C10: every object sealed by a successful finish, built with
\* is-key-sorted true or false from any sequence of keys, has its key-offset
\* table in sorted order.
C10_EverySealedTableSorted ==
    (JustSealed /\ last.kind = "object") => SealedTableSorted

\* the number of 7-bit groups of n, at least one
VarintGroups(n) == IF n < Pow128(1) THEN 1 ELSE IF n < Pow128(2) THEN 2
                   ELSE IF n < Pow128(3) THEN 3 ELSE 4

\* C11: for every n in 0 .. 2^28-1 encode_varint emits the minimal number
\* (1 to 4) of 7-bit groups, least significant first, the continuation bit
\* set on all bytes but the last, and decode_varint on those bytes returns
\* n and the number of bytes emitted.
C11_VarintRoundTrip ==
    /\ last.op = "encode_varint" =>
          LET e == last.out IN
          /\ Len(e) = VarintGroups(last.n)
          /\ Len(e) \in 1..MAX_DATA_LENGTH_SIZE
          /\ \A i \in 1..Len(e) :
                e[i] = ((last.n \div Pow128(i - 1)) % 128) + (IF i < Len(e) THEN 128 ELSE 0)
          /\ SubSeq(bytes, last.at + 1, Len(bytes)) = e
    /\ last.op = "decode_varint" =>
          /\ last.out.res = "Ok"
          /\ last.out.len = last.n
          /\ last.out.n = VarintGroups(last.n)
          /\ last.at + last.out.n = Len(bytes)

\* the largest length, four groups, was decoded behind bytes already there
C11_LargestLengthDecoded ==
    /\ last.op = "decode_varint"
    /\ last.n = MAX_STRING_SIZE
    /\ last.at > 0
    /\ last.out.n = MAX_DATA_LENGTH_SIZE

\* ---- what a path matches in a document, stated on the tree of values: the
\* values a path selects, in the order the selector visits them.  The members
\* of an object are visited in the order of its key-offset table.
RECURSIVE InsertMember(_, _, _)
InsertMember(sorted, m, i) ==
    IF i > Len(sorted) THEN Append(sorted, m)
    ELSE IF cmp_key(m.key, sorted[i].key) < 0
    THEN SubSeq(sorted, 1, i - 1) \o <<m>> \o SubSeq(sorted, i, Len(sorted))
    ELSE InsertMember(sorted, m, i + 1)

RECURSIVE TableOrder(_, _)
TableOrder(members, n) ==
    IF n = 0 THEN <<>> ELSE InsertMember(TableOrder(members, n - 1), members[n], 1)

\* the values of the members of an object, in table order
MemberValues(t) == LET s == TableOrder(t.v, Len(t.v)) IN [i \in 1..Len(s) |-> s[i].val]
HasKey(t, key) == \E i \in 1..Len(t.v) : t.v[i].key = key
ValueAt(t, key) == t.v[CHOOSE i \in 1..Len(t.v) : t.v[i].key = key].val

\* the position an endpoint designates in an array of len elements
EndpointPos(e, len) == IF e.last THEN len - 1 - e.n ELSE e.n

\* the indexes from lo to hi, ascending
RECURSIVE Interval(_, _)
Interval(lo, hi) == IF lo > hi THEN <<>> ELSE <<lo>> \o Interval(lo + 1, hi)

\* the indexes a range designates: the closed interval
\* [max(0, min(a, b)), min(max(a, b), len - 1)]
RangeIndexes(a, b, len) ==
    LET pa == EndpointPos(a, len)
        pb == EndpointPos(b, len)
    IN  Interval(Max(0, Min(pa, pb)), Min(Max(pa, pb), len - 1))

RECURSIVE CellsIndexes(_, _, _)
CellsIndexes(cells, len, j) ==
    IF j > Len(cells) THEN <<>>
    ELSE RangeIndexes(cells[j].a, cells[j].b, len) \o CellsIndexes(cells, len, j + 1)

\* the indexes an array step selects in an array of len elements, in order
StepIndexes(st, len) ==
    CASE st.k = "array_wildcard" -> Interval(0, len - 1)
      [] st.k = "multiple" -> CellsIndexes(st.cells, len, 1)
      [] OTHER -> RangeIndexes(st.a, st.b, len)

RECURSIVE Matched(_, _, _), MatchedEach(_, _, _, _), MatchedAt(_, _, _, _, _)
\* the matches of the steps from step_index on every value of a list
MatchedEach(ts, steps, step_index, i) ==
    IF i > Len(ts) THEN <<>>
    ELSE Matched(ts[i], steps, step_index) \o MatchedEach(ts, steps, step_index, i + 1)

\* the matches of the steps from step_index on the elements at the indexes
MatchedAt(elems, idx, steps, step_index, i) ==
    IF i > Len(idx) THEN <<>>
    ELSE Matched(elems[idx[i] + 1], steps, step_index) \o MatchedAt(elems, idx, steps, step_index, i + 1)

Matched(t, steps, step_index) ==
    IF step_index = Len(steps) THEN <<t>>
    ELSE LET st == steps[step_index + 1] IN
         IF IsArrayStep(st)
         THEN IF t.dt = T_Array
              THEN MatchedAt(t.v, StepIndexes(st, Len(t.v)), steps, step_index + 1, 1)
              \* relaxed match: the step succeeds when it covers index 0 of
              \* the value taken as a single-element array
              ELSE IF Len(StepIndexes(st, 1)) > 0 THEN Matched(t, steps, step_index + 1)
              ELSE <<>>
         ELSE IF st.k = "key"
         THEN IF t.dt = T_Object
              THEN (IF HasKey(t, st.key) THEN Matched(ValueAt(t, st.key), steps, step_index + 1) ELSE <<>>)
              ELSE IF t.dt = T_Array THEN MatchedEach(t.v, steps, step_index, 1)
              ELSE <<>>
         ELSE IF st.k = "object_wildcard"
         THEN IF t.dt = T_Object THEN MatchedEach(MemberValues(t), steps, step_index + 1, 1)
              ELSE IF t.dt = T_Array THEN MatchedEach(t.v, steps, step_index, 1)
              ELSE <<>>
         ELSE IF st.k = "descendent"
         THEN IF t.dt = T_Object
              THEN (IF HasKey(t, st.key) THEN Matched(ValueAt(t, st.key), steps, step_index + 1) ELSE <<>>)
                   \o MatchedEach(MemberValues(t), steps, step_index, 1)
              ELSE IF t.dt = T_Array THEN MatchedEach(t.v, steps, step_index, 1)
              ELSE <<>>
         ELSE <<>>

\* the values a path matches in a document
Matches(t, steps) == Matched(t, steps, 1)

\* the Value a query hands out for a value of the document
ValueOf(t) == IF IsContainer(t.dt) THEN Value(t.dt, Encode(t)) ELSE Value(t.dt, t.v)
ValuesOf(ts) == [i \in 1..Len(ts) |-> ValueOf(ts[i])]

\* the document and the path of the last call
Doc == Docs[log[1]]
Path == Paths[last.path]
WithoutFunction(steps) == \A i \in 1..Len(steps) : ~IsFunc(steps[i])

\* C12: query with with_wrapper = false on a path without function steps
\* returns None when the path matches no value, Value(v) when it matches
\* exactly one value v, and the error MultiValuesWithoutWrapper when it
\* matches two or more values.
C12_QueryWithoutWrapper ==
    (last.op = "query" /\ ~last.with_wrapper /\ WithoutFunction(Path)) =>
        LET m == Matches(Doc, Path) IN
        /\ Len(m) = 0 => last.out = Queried("None", <<>>)
        /\ Len(m) = 1 => last.out = Queried("Value", ValuesOf(m))
        /\ Len(m) >= 2 => last.out = Queried("MultiValuesWithoutWrapper", <<>>)

\* C13: for every document d and every path p without function steps,
\* exists(p, d) returns true if and only if query(p, d, with_wrapper = true)
\* returns a non-empty result, and false exactly when that query returns None.
C13_ExistsIffQueryNonEmpty ==
    (last.op = "exists" /\ WithoutFunction(Path)) =>
        LET q == PathExpression_query(Path, bytes, TRUE, debug) IN
        /\ last.out = "true" <=> (q.res = "Values" /\ Len(q.vals) > 0)
        /\ last.out = "false" <=> q.res = "None"

\* C14: with with_wrapper = true the matched values are returned in the
\* visit order: the members of a container in table / index order, the cells
\* of a multi-cell array step left to right as written, an element selected
\* by several cells (or by a repeated cell) once per selecting cell.
C14_ValuesInVisitOrder ==
    (last.op = "query" /\ last.with_wrapper /\ WithoutFunction(Path)) =>
        LET m == Matches(Doc, Path) IN
        last.out = IF Len(m) = 0 THEN Queried("None", <<>>) ELSE Queried("Values", ValuesOf(m))

\* C15: relaxed match: for every non-array value v and every array step
\* (index, last - k, range, multi-cell list, wildcard) followed by any
\* remaining steps, evaluating the path on v yields the same sequence of
\* results as evaluating it on the one-element array [v].
C15_RelaxedMatchAsSingleton ==
    (/\ last.op = "query" /\ last.with_wrapper
     /\ Doc.dt # T_Array
     /\ Len(Path) > 1 /\ IsArrayStep(Path[2]) /\ WithoutFunction(Path)) =>
        last.out = PathExpression_query(Path, Encode(TArr(<<Doc>>)), TRUE, debug)

\* the elements of an array at the indexes, in that order
ElementsAt(t, idx) == [i \in 1..Len(idx) |-> t.v[idx[i] + 1]]

\* C16: an array range step [a to b], each endpoint an index i or last - k
\* resolved against the array, selects exactly the elements at indexes
\* max(0, min(a, b)) .. min(max(a, b), len - 1) in ascending order, whichever
\* way round the endpoints are written; it selects nothing on an empty array
\* or when that interval is empty; the evaluator never underflows len - 1 nor
\* reads an index >= len.
C16_RangeSelectsClampedInterval ==
    (/\ last.op = "query" /\ last.with_wrapper
     /\ Doc.dt = T_Array
     /\ Len(Path) = 2 /\ Path[2].k = "range") =>
        LET idx == RangeIndexes(Path[2].a, Path[2].b, Len(Doc.v)) IN
        last.out = IF Len(idx) = 0 THEN Queried("None", <<>>)
                   ELSE Queried("Values", ValuesOf(ElementsAt(Doc, idx)))

\* the values under key in every object reachable from t through objects and
\* arrays: an object's own value under key first, then what lies in its
\* members, in table order
RECURSIVE UnderKey(_, _), UnderKeyEach(_, _, _)
UnderKeyEach(ts, key, i) ==
    IF i > Len(ts) THEN <<>> ELSE UnderKey(ts[i], key) \o UnderKeyEach(ts, key, i + 1)

UnderKey(t, key) ==
    IF t.dt = T_Object
    THEN (IF HasKey(t, key) THEN <<ValueAt(t, key)>> ELSE <<>>) \o UnderKeyEach(MemberValues(t), key, 1)
    ELSE IF t.dt = T_Array THEN UnderKeyEach(t.v, key, 1)
    ELSE <<>>

\* whether the last call is a query with wrapper of a path that ends in ..k
DescendentQuery ==
    /\ last.op = "query" /\ last.with_wrapper
    /\ Len(Path) >= 2 /\ Path[Len(Path)].k = "descendent"

\* C17: a descendent step ..k evaluated on a value matches the value under
\* key k of every object reachable from it through any depth of objects and
\* arrays, objects nested inside a value that itself matched included, each
\* object's own k before the matches inside its members; it matches nothing
\* when no reachable object has key k.
C17_DescendentMatchesEveryReachableKey ==
    DescendentQuery =>
        LET from == Matches(Doc, SubSeq(Path, 1, Len(Path) - 1))
            m == UnderKeyEach(from, Path[Len(Path)].key, 1)
        IN  last.out = IF Len(m) = 0 THEN Queried("None", <<>>) ELSE Queried("Values", ValuesOf(m))

\* $..a on {b: {a: {a: null}}, a: [{a: true}, null, {b: {a: false}}]}: five
\* values, one of them inside a value that itself matched
C17_NestedInsideMatchedValue ==
    /\ DescendentQuery
    /\ Path = <<Root, Descendent(KeyA)>>
    /\ last.out.res = "Values"
    /\ Len(last.out.vals) = 5
    /\ last.out.vals[5] = ValueNull

\* whether the last call is a query with wrapper of a path that ends in count()
CountQuery ==
    /\ last.op = "query" /\ last.with_wrapper
    /\ Len(Path) >= 2 /\ Path[Len(Path)].k = "count"

\* C18: for a path ending in count() queried with with_wrapper = true, the
\* result is exactly one Number equal to the number of values matched by the
\* path without its count() step, the Number 0 when the prefix matches
\* nothing included.
C18_CountIsNumberOfMatches ==
    CountQuery =>
        last.out = Queried("Values",
                           <<ValueNumber(Len(Matches(Doc, SubSeq(Path, 1, Len(Path) - 1))))>>)

\* count() after a prefix that matches nothing has returned the Number 0
C18_CountOfNothingIsZero ==
    /\ CountQuery
    /\ Matches(Doc, SubSeq(Path, 1, Len(Path) - 1)) = <<>>
    /\ last.out = Queried("Values", <<ValueNumber(0)>>)

\* whether the path of the last call ends in count(), size() or type()
EndsInFunction == Len(Path) >= 2 /\ IsFunc(Path[Len(Path)])

\* C19: a path whose last step is a function is rejected before evaluation
\* whatever the document: exists returns InvalidPathExpression, and query
\* with with_wrapper = false returns MultiValuesWithoutWrapper, even when the
\* path prefix matches a single value.
C19_FunctionPathRejected ==
    /\ (last.op = "exists" /\ EndsInFunction) => last.out = "InvalidPathExpression"
    /\ (last.op = "query" /\ ~last.with_wrapper /\ EndsInFunction) =>
           last.out = Queried("MultiValuesWithoutWrapper", <<>>)

\* a query without wrapper whose prefix matches a single value was rejected
C19_SingleMatchRejected ==
    /\ last.op = "query" /\ ~last.with_wrapper /\ EndsInFunction
    /\ Len(Matches(Doc, SubSeq(Path, 1, Len(Path) - 1))) = 1
    /\ last.out.res = "MultiValuesWithoutWrapper"

\* structural equality of two documents: same kind; containers of the same
\* element count with pairwise-equal members in table order; scalars with
\* equal payloads
RECURSIVE StructurallyEqual(_, _)
StructurallyEqual(a, b) ==
    /\ a.dt = b.dt
    /\ IF a.dt = T_Object
       THEN LET am == TableOrder(a.v, Len(a.v))
                bm == TableOrder(b.v, Len(b.v))
            IN  /\ Len(am) = Len(bm)
                /\ \A i \in 1..Len(am) :
                       am[i].key = bm[i].key /\ StructurallyEqual(am[i].val, bm[i].val)
       ELSE IF a.dt = T_Array
       THEN /\ Len(a.v) = Len(b.v)
            /\ \A i \in 1..Len(a.v) : StructurallyEqual(a.v[i], b.v[i])
       ELSE a.v = b.v

\* the document the last call compared the built document with
Other == Others[last.path]

\* C20: Yason::equals(a, b) is true if and only if a and b have the same kind
\* and are structurally equal (containers: same element count and
\* pairwise-equal members in table order; strings and numbers: equal
\* payloads; bools: same value; nulls: always), so that equality is
\* reflexive, symmetric and independent of the order in which an object's
\* keys were pushed.
C20_EqualsIffStructurallyEqual ==
    last.op = "equals" =>
        /\ (last.out = "true") <=> StructurallyEqual(Doc, Other)
        /\ Yason_equals(Encode(Other), bytes, debug) = last.out


\* C21: every read applied to an arbitrary byte buffer returns a value or a
\* typed error (IndexOutOfBounds, InvalidDataType, UnexpectedType); no buffer
\* makes a reader panic.
C21_ReadNeverPanics ==
    last.op \in {"typed", "element", "member", "eq"}
        => last.out.res \in {"Ok", "None", "IndexOutOfBounds", "InvalidDataType", "UnexpectedType"}

C21_ContinuationInAllFourBytes ==
    /\ last.op = "typed"
    /\ ~debug
    /\ bytes = <<T_String, 128, 128, 128, 128>>
    /\ last.out.res = "panic"

\* the number of pushed keys that sort before key: the table index of key
KeyRank(key, pushed) ==
    Cardinality({ i \in 1..Len(pushed) : cmp_key(pushed[i].key, key) < 0 })

PushedInKeyOrder(pushed) ==
    \A i, j \in 1..Len(pushed) : i < j => cmp_key(pushed[i].key, pushed[j].key) < 0

\* an object sealed after pushes of distinct keys that all returned Ok (in
\* key-sorted mode: pushed in key order, as that mode requires)
CleanObject ==
    /\ JustSealed
    /\ last.kind = "object"
    /\ SealedLast.errs = 0
    /\ DistinctKeys(SealedLast.pushed)
    /\ SealedLast.key_sorted => PushedInKeyOrder(SealedLast.pushed)

C23_KeyLengthFieldIsKeyLength ==
    (last.op = "push" /\ last.res = "Ok" /\ last.kind = "object") =>
        LET el == Called.pushed[Len(Called.pushed)] IN
        /\ RdU16(bytes, el.at) = Len(el.key)
        /\ SubSeq(bytes, el.at + KEY_LENGTH_SIZE + 1, el.at + KEY_LENGTH_SIZE + Len(el.key)) = el.key

\* C24: the sealed buffer is a function of the builder calls: every byte of
\* a sealed container, the 4-byte field of Null and Bool array value-entries
\* included, was written by the builder (none is a cell that set_len exposed
\* and no call wrote).
C24_EverySealedByteWritten ==
    JustSealed =>
        \A i \in (SealedLast.init + 1)..SealedLast.end : IsInit(bytes[i])

\* an array whose pushes all returned Ok, one of them push_null, was sealed
C24_NullPushedAndSealed ==
    /\ JustSealed
    /\ last.kind = "array"
    /\ SealedLast.errs = 0
    /\ ~SealedLast.unfin
    /\ \E j \in 1..Len(SealedLast.pushed) : SealedLast.pushed[j].dt = T_Null
    /\ \E i \in (SealedLast.init + 1)..SealedLast.end : ~IsInit(bytes[i])

\* C25: finishing an object builder declared with element count 0 and given
\* no pushes, in either key-sorted mode, succeeds (no error, no failed
\* assertion, no underflow in the sortedness check) and yields an object of
\* length 0 that formats as {} in compact mode and as "{\n}" in pretty mode.
C25_EmptyObjectFinishes ==
    (last.op = "finish" /\ last.kind = "object" /\ last.expected = 0 /\ npush = 0) =>
        /\ last.res = "Ok"
        /\ ReadLen(DocOf(SealedLast)) = 0
        /\ Yason_format_to(DocOf(SealedLast), FALSE, debug).out = <<123, 125>>
        /\ Yason_format_to(DocOf(SealedLast), TRUE, debug).out = <<123, 10, 125>>

\* the empty object was sealed (a build without debug assertions)
C25_EmptyObjectSealed ==
    /\ JustSealed
    /\ last.kind = "object"
    /\ last.expected = 0
    /\ npush = 0
    /\ ~debug
    /\ Yason_format_to(DocOf(SealedLast), TRUE, debug).out = <<123, 10, 125>>

\* C25 in a build without debug assertions
C25_EmptyObjectFinishesInRelease == ~debug => C25_EmptyObjectFinishes

\* the path of the last query selects at least one value of the document
SelectsSome ==
    PathExpression_query(OtherPaths[last.path], bytes, TRUE, debug).res = "Values"

\* C26: when the caller provides a result buffer and the path matches at
\* least one value, query returns the QueriedValue::Yason shape, whether or
\* not with_wrapper is specified and whether or not a query buffer is
\* provided.
C26_ResultBufferGivesYason ==
    (last.op = "query" /\ last.result_buf /\ SelectsSome
       /\ last.out.res \in {"None", "Value", "Values", "ValuesRef", "Yason"}) =>
        last.out.res = "Yason"

\* C26 where WITH WRAPPER is specified
C26_ResultBufferGivesYasonWithWrapper ==
    (last.op = "query" /\ last.result_buf /\ last.with_wrapper /\ SelectsSome) =>
        last.out.res = "Yason"

\* a single match was asked for without wrapper, a result buffer given
C26_ValueDespiteResultBuffer ==
    /\ last.op = "query"
    /\ last.result_buf
    /\ ~last.with_wrapper
    /\ last.out.res = "Value"


\* the input reads `. name ( )` from its i-th byte, a `.`: the position after
\* the `)`, or NoByte
MethodEnd(in, i) ==
    LET begin == eat_whitespaces(in, i)
        left == eat_whitespaces(in, skip(in, begin, AsciiAlphabetic \cup AsciiDigit))
        right == eat_whitespaces(in, left + 1)
    IN IF /\ in[i] = DOT
          /\ peek(in, begin) \in AsciiAlphabetic
          /\ peek(in, left) = LEFT_BRACKET
          /\ peek(in, right) = RIGHT_BRACKET
       THEN right + 1 ELSE NoByte
MethodName(in, i) ==
    SubSeq(in, eat_whitespaces(in, i) + 1,
           skip(in, eat_whitespaces(in, i), AsciiAlphabetic \cup AsciiDigit))
\* the bytes before the i-th are a path without a function step
PathBefore(in, i) ==
    LET k(r) == r.res = "Ok" /\ \A j \in 1..Len(r.path) : ~IsFunc(r.path[j])
    IN k(parse(SubSeq(in, 1, i - 1)))
\* the first `name()` of the input starts at byte i
MethodAt(in, i) == MethodEnd(in, i) # NoByte /\ PathBefore(in, i)
Parsed == phase = "called" /\ last.op = "parse"

\* C27: a function step is accepted only as the final step.  Input with a
\* non-whitespace byte after `name()` is rejected with UnexpectedCharacterAtEnd;
\* `name()` at the end with a name other than count, size, type is rejected
\* with InvalidFunction, and with one of them parses to a path ending with that
\* function; every parsed path is Root at index 0, followed by non-Root steps,
\* with no function step before the last position.
C27_FunctionStepOnlyLast ==
    Parsed =>
        /\ last.out.res = "Ok" =>
            /\ Len(last.out.path) >= 1
            /\ last.out.path[1] = Root
            /\ \A j \in 2..Len(last.out.path) : last.out.path[j] # Root
            /\ \A j \in 1..(Len(last.out.path) - 1) : ~IsFunc(last.out.path[j])
        /\ \A i \in 1..Len(bytes) :
            MethodAt(bytes, i) =>
                IF ~exhausted(bytes, eat_whitespaces(bytes, MethodEnd(bytes, i)))
                THEN last.out.res = "UnexpectedCharacterAtEnd"
                ELSE IF MethodName(bytes, i) \notin {COUNT, SIZE, TYPE}
                THEN last.out.res = "InvalidFunction"
                ELSE /\ last.out.res = "Ok"
                     /\ IsFunc(last.out.path[Len(last.out.path)])

\* a path with a step after `size()` was parsed and rejected
C27_StepAfterFunctionRejected ==
    /\ Parsed
    /\ last.out.res = "UnexpectedCharacterAtEnd"
    /\ \E i \in 1..Len(bytes) :
        /\ MethodAt(bytes, i)
        /\ MethodName(bytes, i) = SIZE
        /\ peek(bytes, MethodEnd(bytes, i)) = DOT


\* the table region reserved at construction for builder b, in buffer s
TableOf(s, b) ==
    SubSeq(s, b.start_pos + ELEMENT_COUNT_SIZE + 1,
           Min(Len(s), b.start_pos + ELEMENT_COUNT_SIZE + b.element_count *
                   (IF b.kind = "object" THEN KEY_OFFSET_SIZE ELSE VALUE_ENTRY_SIZE)))
\* this step is a push that returns NestedTooDeeply or StringTooLong
FailedPush ==
    /\ npush' = npush + 1
    /\ phase' = "open"
    /\ last'.res \in {"NestedTooDeeply", "StringTooLong"}

\* C28: a push that returns NestedTooDeeply or StringTooLong leaves the
\* builder as it was before the call: its pushed-element count, its next
\* table slot, the contents of its table and the length of the buffer are
\* unchanged.
C28_FailedPushLeavesBuilder ==
    [][FailedPush =>
        /\ Len(stack') = Len(stack)
        /\ stack'[Len(stack)].value_count = Top.value_count
        /\ stack'[Len(stack)].entry_pos = Top.entry_pos
        /\ TableOf(bytes', Top) = TableOf(bytes, Top)
        /\ Len(bytes') = Len(bytes)]_vars


\* the index of the table slot at the builder's next-slot position
NextSlot(b) ==
    (b.entry_pos - b.start_pos - ELEMENT_COUNT_SIZE) \div
        (IF b.kind = "object" THEN KEY_OFFSET_SIZE ELSE VALUE_ENTRY_SIZE)
\* this step is a push that got past the check for an open nested builder
PushWrites == npush' = npush + 1 /\ last'.res # "InnerUncompleted"

\* C29: every push on an array or object builder writes its value-entry or
\* key-offset slot at a table index below the declared element count, and
\* does not index past the end of the buffer (which panics).
C29_PushWritesInsideTable ==
    [][PushWrites => NextSlot(Top) < Top.element_count /\ phase' # "panicked"]_vars


\* a pretty formatter is at work on, or has returned from, a document of
\* nesting depth at most 100 or a query result on one
PrettyFormatting ==
    /\ phase \in {"formatting", "formatted"}
    /\ last.pretty
    /\ log[1].depth <= MAX_NESTED_DEPTH

\* C30: pretty-formatting a document of nesting depth at most 100, or a
\* query result (Value, Values, ValuesRef, Yason) on such a document, never
\* asks for more indentation than the 200 spaces of SPACE_BUF: no indent
\* panics.
C30_IndentWithinSpaceBuf ==
    PrettyFormatting => last.res # "panic" /\ last.ind <= SPACE_BUF

====
